---- MODULE Spec2Model ----
(***************************************************************************)
(* Pension calculator: the two monthly scheme simulators of                *)
(* calculations.py (calculate_scheme1_logic, calculate_scheme2_logic),     *)
(* the rate converter of utils.py and the comparison analyzer              *)
(* (analyze_scheme_performance), together with the rate converter and the  *)
(* three-scheme analyzer of pension_calculator.py, and the calculator page *)
(* of app.py with the date navigation of ui_components.py.                 *)
(*                                                                         *)
(* Arithmetic.  The program computes in binary floating point.  The model  *)
(* computes the same expressions in exact rational arithmetic: a rate is a *)
(* fraction [num, den], an amount of money is an integer number of money   *)
(* units, and the inputs are drawn from sets on which every product        *)
(* amount * rate is again a whole number of units.  Floating-point         *)
(* rounding is therefore outside the model.                                *)
(***************************************************************************)
EXTENDS Integers, Sequences, FiniteSets, TLC

VARIABLES
    pc,                 \* position of the running function
    variant,            \* "s1": calculate_scheme1_logic, "s2": calculate_scheme2_logic,
                        \* "cmp": analyzer of calculations.py, "cmp3": analyzer of pension_calculator.py,
                        \* "rate": utils.get_monthly_rate, "rate_pc": pension_calculator.get_monthly_rate,
                        \* "app": app.calculator_page
    p,                  \* the arguments of the running simulator or rate converter
    monthly_sip_rate,           \* local monthly_sip_rate_s1
    monthly_reinvestment_rate,  \* local monthly_reinvestment_rate_s1 / _s2
    current_date,       \* loop variable of the simulator
    cumulative_contributions_paid_to_provider,
    pension_reinvestment_pot,
    pension_reinvestment_interest_earned,
    sip_fund_balance,
    sip_fund_interest_earned,
    total_tax_paid_on_pension,
    total_tax_paid_on_reinvestment_interest,
    records,            \* the simulator's list of monthly records
    result,             \* what the simulator or the rate converter returns
    s1_records,         \* analyzer argument
    s2_records,         \* analyzer argument
    s3_records,         \* analyzer argument (three-scheme analyzer only)
    combined_df,        \* analyzer: merged frame, one row per month
    idx,                \* analyzer: loop index i (1-based here)
    prev_s1,
    prev_s2,
    prev_s3,
    overtakes,
    ranking,
    returned,           \* the caller's side: what the simulator calls made so far returned
    session             \* app.py: st.session_state and what the page run works on

simVars == <<p, monthly_sip_rate, monthly_reinvestment_rate, current_date, cumulative_contributions_paid_to_provider,
             pension_reinvestment_pot, pension_reinvestment_interest_earned,
             sip_fund_balance, sip_fund_interest_earned,
             total_tax_paid_on_pension, total_tax_paid_on_reinvestment_interest,
             records, result>>

cmpVars == <<s1_records, s2_records, s3_records, combined_df, idx,
             prev_s1, prev_s2, prev_s3, overtakes, ranking>>

vars == <<pc, variant, simVars, cmpVars, returned, session>>

-----------------------------------------------------------------------------
(* Bounds of the model *)

\* The simulated window holds the months Base, Base+1, ..., Base+MaxMonth.
MaxMonth == 4

\* Longest series handed to the analyzer.
MaxLen == 3

\* Longest series handed to the three-scheme analyzer.
MaxLen3 == 2

\* Largest annual rate handed to the rate converter on its own, in percent.
MaxRatePercent == 12

\* Most simulator calls made one after the other.
MaxCalls == 3

-----------------------------------------------------------------------------
(* Exact arithmetic on fractions *)

RECURSIVE Pow(_, _)
Pow(b, e) == IF e = 0 THEN 1 ELSE b * Pow(b, e - 1)

RECURSIVE GCD(_, _)
GCD(a, b) == IF b = 0 THEN a ELSE GCD(b, a % b)

Frac(n, d) == [num |-> n \div GCD(n, d), den |-> d \div GCD(n, d)]

ZeroRate == [num |-> 0, den |-> 1]

\* amount * rate, for an amount in money units
Mul(amount, rate) == (amount * rate.num) \div rate.den

-----------------------------------------------------------------------------
(* Dates: datetime / date values, compared as Python compares them *)

MkDate(y, m, d) == [year |-> y, month |-> m, day |-> d]

DateLT(a, b) ==
    \/ a.year < b.year
    \/ a.year = b.year /\ a.month < b.month
    \/ a.year = b.year /\ a.month = b.month /\ a.day < b.day

DateLE(a, b) == a = b \/ DateLT(a, b)

\* Mutant: the day of the month is kept.
FirstOfMonth_KeepDay(x) == MkDate(x.year, x.month, x.day)

\* datetime(x.year, x.month, 1)
FirstOfMonth(x) == MkDate(x.year, x.month, 1)

\* Mutant: the month is incremented without carrying into the year.
AddMonth_NoCarry(d) == MkDate(d.year, d.month + 1, d.day)

\* d + relativedelta(months=1)
AddMonth(d) ==
    IF d.month = 12 THEN MkDate(d.year + 1, 1, d.day)
                    ELSE MkDate(d.year, d.month + 1, d.day)

\* d.strftime('%Y-%m')
YearMonth(d) == [year |-> d.year, month |-> d.month]

-----------------------------------------------------------------------------
(* utils.py: the rate converter *)

\* Mutant: an unrecognised label is taken for monthly compounding.
get_compounding_frequency_value_DefaultMonthly(frequency_str) ==
    IF frequency_str = "Daily" THEN 365
    ELSE IF frequency_str = "Monthly" THEN 12
    ELSE IF frequency_str = "Quarterly" THEN 4
    ELSE IF frequency_str = "Annually" THEN 1
    ELSE 12

\* utils.get_compounding_frequency_value
get_compounding_frequency_value(frequency_str) ==
    IF frequency_str = "Daily" THEN 365
    ELSE IF frequency_str = "Monthly" THEN 12
    ELSE IF frequency_str = "Quarterly" THEN 4
    ELSE IF frequency_str = "Annually" THEN 1
    ELSE 0

\* Fractions among which a root is looked for.
RootCandidates ==
    {Frac(k, 1) : k \in 1..4} \cup {Frac(k, 2) : k \in {3, 5, 7}}

\* x ** (1/q) for a fraction x that is the q-th power of a candidate.
Root(x, q) ==
    IF q = 1 THEN x
    ELSE CHOOSE r \in RootCandidates :
             Pow(r.num, q) * x.den = x.num * Pow(r.den, q)

\* what a function leaves behind when a division by zero is raised in it
ZeroDivisionError == [raised |-> "ZeroDivisionError"]

\* (1 + annual_rate / f) ** f, then ** (1/12), minus 1; annual_rate / f raises
\* ZeroDivisionError for f = 0.  In exact arithmetic
\* (x ** f) ** (1/12) = (x ** (f/g)) ** (1/(12/g)) with g = gcd(f, 12); the
\* model evaluates the right-hand side, which keeps the numbers small.  It is
\* defined for the arguments whose monthly rate is a fraction.
EffectiveMonthlyRate(annual_rate, compounding_frequency_value) ==
    IF compounding_frequency_value = 0 THEN ZeroDivisionError
    ELSE LET f      == compounding_frequency_value
             base   == Frac(annual_rate.den * f + annual_rate.num, annual_rate.den * f)
             g      == GCD(f, 12)
             powed  == [num |-> Pow(base.num, f \div g), den |-> Pow(base.den, f \div g)]
             growth == Root(powed, 12 \div g)
         IN  Frac(growth.num - growth.den, growth.den)

\* Mutant: the guard on the compounding frequency is missing.
get_monthly_rate_NoFrequencyGuard(annual_rate, compounding_frequency_value) ==
    IF annual_rate.num = 0 THEN ZeroRate
    ELSE EffectiveMonthlyRate(annual_rate, compounding_frequency_value)

\* utils.get_monthly_rate: the two guards, then the conversion
get_monthly_rate(annual_rate, compounding_frequency_value) ==
    IF compounding_frequency_value = 0 THEN ZeroRate
    ELSE IF annual_rate.num = 0 THEN ZeroRate
    ELSE EffectiveMonthlyRate(annual_rate, compounding_frequency_value)

\* pension_calculator.get_monthly_rate: one combined guard, then the conversion
pension_calculator_get_monthly_rate(annual_rate, compounding_frequency_value) ==
    IF compounding_frequency_value = 0 \/ annual_rate.num = 0 THEN ZeroRate
    ELSE EffectiveMonthlyRate(annual_rate, compounding_frequency_value)

-----------------------------------------------------------------------------
(* calculations.py: calculate_scheme1_logic *)

lump_sum_dt == FirstOfMonth(p.lump_sum_date_val)
end_date_dt == FirstOfMonth(p.end_date)

s1_contrib_end_dt   == FirstOfMonth(p.s1_contribution_to_provider_end_date_val)
s1_pension_start_dt == FirstOfMonth(p.s1_pension_start_date)
s2_pension_start_dt == FirstOfMonth(p.s2_pension_start_date)

\* the two get_monthly_rate calls before the loop
monthly_sip_rate_s1(args) ==
    get_monthly_rate(args.s1_sip_fund_growth_rate, args.s1_sip_fund_compounding_frequency)
monthly_reinvestment_rate_s1(args) ==
    get_monthly_rate(args.s1_reinvestment_rate, args.s1_reinvestment_compounding_frequency)

\* Mutant: the horizon month itself is not simulated.
LoopCond_Strict == DateLT(current_date, end_date_dt)
\* Mutant: the body runs once before the condition is looked at.
LoopCond_DoWhile == DateLE(current_date, end_date_dt) \/ records = <<>>

\* while current_date <= end_date_dt
LoopCond == DateLE(current_date, end_date_dt)

\* if current_date == lump_sum_dt
IsLumpSumMonth == current_date = lump_sum_dt

\* Mutant: the contribution end month itself is left out.
S1ToProvider_Strict == DateLT(current_date, s1_contrib_end_dt)

\* if current_date <= s1_contrib_end_dt
S1ToProvider == DateLE(current_date, s1_contrib_end_dt)

\* Mutant: the side fund still receives the contribution in the transition month.
S1ToSipFund_ThroughTransition ==
    /\ ~S1ToProvider
    /\ DateLT(s1_contrib_end_dt, current_date)
    /\ DateLE(current_date, s2_pension_start_dt)
\* elif s1_contrib_end_dt < current_date < s2_pension_start_dt
S1ToSipFund ==
    /\ ~S1ToProvider
    /\ DateLT(s1_contrib_end_dt, current_date)
    /\ DateLT(current_date, s2_pension_start_dt)

\* Mutant: the interest is computed on the balance before the month's contribution.
S1SipInterest_BeforeContribution(sip) == Mul(sip_fund_balance, monthly_sip_rate)

\* current_sip_interest = sip_fund_balance_s1 * monthly_sip_rate_s1
S1SipInterest(sip) == Mul(sip, monthly_sip_rate)
\* if current_date >= s1_pension_start_dt
S1PensionDue == DateLE(s1_pension_start_dt, current_date)

\* if enable_tax and current_date < s2_pension_start_dt   (pension)
S1PensionTaxed == p.enable_tax /\ DateLT(current_date, s2_pension_start_dt)

\* Mutant: interest is taxed whenever tax is enabled, whatever the month.
S1InterestTaxed_AnyMonth == p.enable_tax

\* if enable_tax and current_date < s2_pension_start_dt   (reinvestment interest)
S1InterestTaxed == p.enable_tax /\ DateLT(current_date, s2_pension_start_dt)

\* tax_on_pension_this_month = pension_received_this_month_gross * tax_rate
S1PensionTax(gross) == Mul(gross, p.tax_rate)

\* Mutant: the tax is recorded but not withheld.
S1PensionNet_NotWithheld(gross, tax) == gross

\* pension_received_this_month_net = gross - tax_on_pension_this_month
S1PensionNet(gross, tax) == gross - tax

\* Mutant: the merger is made a month late.
S1IsMergerMonth_MonthLate == current_date = AddMonth(s2_pension_start_dt)
\* Mutant: the merger is made in the month variant A's own pension starts.
S1IsMergerMonth_AtPensionStart == current_date = s1_pension_start_dt
\* if current_date == s2_pension_start_dt
S1IsMergerMonth == current_date = s2_pension_start_dt

\* Mutant: the side fund is reset without being transferred.
S1Merge_Lost(pot, sip) == [pot |-> pot, sip |-> 0]

\* Mutant: the side fund is transferred without being reset.
S1Merge_NoReset(pot, sip) == [pot |-> pot + sip, sip |-> sip]

\* the merger: the side fund moves into the reinvestment pot
S1Merge(pot, sip) == [pot |-> pot + sip, sip |-> 0]

\* Mutant: the pension tax withheld so far is counted in the total.
S1TotalValue_WithTaxWithheld(pot, sip) == pot + sip + total_tax_paid_on_pension

\* current_total_value = pension_reinvestment_pot_s1 + sip_fund_balance_s1
S1TotalValue(pot, sip) == pot + sip
\* One iteration of the while loop.  Each local of the loop body is bound once,
\* in the order the body assigns it, by \E over a one-element set.
Scheme1Step ==
    /\ pc = "loop" /\ variant = "s1"
    /\ LoopCond
    /\ \E lump \in { IF IsLumpSumMonth THEN p.initial_lump_sum_val ELSE 0 } :
       \* contributions: to the provider, or to the side fund which then grows
       \E toProv \in { IF S1ToProvider THEN p.monthly_contribution_val ELSE 0 } :
       \E toSip \in { IF S1ToSipFund THEN p.monthly_contribution_val ELSE 0 } :
       \E cum \in { cumulative_contributions_paid_to_provider + lump + toProv } :
       \E sip1 \in { sip_fund_balance + toSip } :
       \E sipInt \in { IF S1ToSipFund THEN S1SipInterest(sip1) ELSE 0 } :
       \E sip2 \in { sip1 + sipInt } :
       \* pension payout
       \E gross \in { IF S1PensionDue THEN p.s1_pension_amount ELSE 0 } :
       \E penTax \in { IF S1PensionDue /\ S1PensionTaxed THEN S1PensionTax(gross) ELSE 0 } :
       \E net \in { IF ~S1PensionDue THEN 0
                    ELSE IF S1PensionTaxed THEN S1PensionNet(gross, penTax)
                    ELSE gross } :
       \E pot1 \in { pension_reinvestment_pot + net } :
       \* side-fund merger
       \E merged \in { IF S1IsMergerMonth THEN S1Merge(pot1, sip2)
                                         ELSE [pot |-> pot1, sip |-> sip2] } :
       \E pot2 \in { merged.pot } :
       \E sip3 \in { merged.sip } :
       \* reinvestment growth, after all inflows of the month
       \E grows \in { pot2 > 0 } :
       \E intGross \in { IF grows THEN Mul(pot2, monthly_reinvestment_rate) ELSE 0 } :
       \E intTax \in { IF grows /\ S1InterestTaxed THEN Mul(intGross, p.tax_rate) ELSE 0 } :
       \E intNet \in { intGross - intTax } :
       \E pot3 \in { pot2 + intNet } :
       \E current_total_value \in { S1TotalValue(pot3, sip3) } :
           /\ cumulative_contributions_paid_to_provider' = cum
           /\ sip_fund_balance' = sip3
           /\ sip_fund_interest_earned' = sip_fund_interest_earned + sipInt
           /\ pension_reinvestment_pot' = pot3
           /\ pension_reinvestment_interest_earned' =
                  pension_reinvestment_interest_earned + intNet
           /\ total_tax_paid_on_pension' = total_tax_paid_on_pension + penTax
           /\ total_tax_paid_on_reinvestment_interest' =
                  total_tax_paid_on_reinvestment_interest + intTax
           /\ records' = Append(records,
                  [Date                       |-> YearMonth(current_date),
                   ContributionsPaidThisMonth |-> lump + toProv,
                   CumulativeContributionsPaid |-> cum,
                   PensionReceivedGross       |-> gross,
                   TaxOnPension               |-> penTax,
                   PensionReceivedNet         |-> net,
                   MonthlySIPContribution     |-> toSip,
                   InterestOnSIPFund          |-> sipInt,
                   SIPFundBalance             |-> sip3,
                   \* interest_earned_on_reinvestment_gross is never assigned
                   \* after its initialisation to 0.0 (line 54)
                   InterestOnReinvestmentGross |-> 0,
                   TaxOnReinvestmentInterest  |-> intTax,
                   InterestOnReinvestmentNet  |-> intNet,
                   PensionReinvestmentPot     |-> pot3,
                   TotalAccumulatedValue      |-> current_total_value])
    /\ current_date' = AddMonth(current_date)
    /\ UNCHANGED <<pc, variant, p, monthly_sip_rate, monthly_reinvestment_rate, result, cmpVars,
                   returned, session>>

\* Mutant: the first record is read instead of the last.
FinalValueOf_First(recs) ==
    IF recs # <<>> THEN recs[1].TotalAccumulatedValue ELSE 0

\* records[-1]['Total Accumulated Value (User)'] if records else 0.0
FinalValueOf(recs) ==
    IF recs # <<>> THEN recs[Len(recs)].TotalAccumulatedValue ELSE 0

\* the statements after the loop, and the return
Scheme1Return ==
    /\ pc = "loop" /\ variant = "s1"
    /\ ~LoopCond
    /\ result' = [records |-> records,
                  total_interest_earned |->
                      pension_reinvestment_interest_earned + sip_fund_interest_earned,
                  final_value |-> FinalValueOf(records),
                  total_tax_paid_on_pension |-> total_tax_paid_on_pension,
                  total_tax_paid_on_reinvestment_interest |->
                      total_tax_paid_on_reinvestment_interest]
    /\ pc' = "done"
    /\ returned' = Append(returned, [variant |-> variant, p |-> p, result |-> result'])
    /\ UNCHANGED <<variant, p, monthly_sip_rate, monthly_reinvestment_rate, current_date, cumulative_contributions_paid_to_provider,
                   pension_reinvestment_pot, pension_reinvestment_interest_earned,
                   sip_fund_balance, sip_fund_interest_earned,
                   total_tax_paid_on_pension, total_tax_paid_on_reinvestment_interest,
                   records, cmpVars, session>>

-----------------------------------------------------------------------------
(* calculations.py: calculate_scheme2_logic *)

s2_contrib_end_dt == FirstOfMonth(p.s2_contribution_to_provider_end_date_val)

\* the get_monthly_rate call before the loop
monthly_reinvestment_rate_s2(args) ==
    get_monthly_rate(args.s2_reinvestment_rate, args.s2_reinvestment_compounding_frequency)

\* if current_date <= s2_contrib_end_dt
S2ToProvider == DateLE(current_date, s2_contrib_end_dt)

\* Mutant: the pension start month itself pays no pension.
S2PensionDue_Strict == DateLT(s2_pension_start_dt, current_date)
\* if current_date >= s2_pension_start_dt
S2PensionDue == DateLE(s2_pension_start_dt, current_date)

\* Mutant: half of the pension is withheld.
S2PensionNet_Withheld == p.s2_pension_amount - (p.s2_pension_amount \div 2)

\* pension_received_this_month_net = s2_pension_amount
S2PensionNet == p.s2_pension_amount

\* Mutant: the interest is computed on the balance before the month's pension.
S2Interest_BeforeInflow(pot) ==
    IF pot > 0 THEN Mul(pension_reinvestment_pot, monthly_reinvestment_rate) ELSE 0

\* if pension_reinvestment_pot_s2 > 0: interest = pot * monthly rate
S2Interest(pot) ==
    IF pot > 0 THEN Mul(pot, monthly_reinvestment_rate) ELSE 0

\* One iteration of the while loop.
Scheme2Step ==
    /\ pc = "loop" /\ variant = "s2"
    /\ LoopCond
    /\ \E lump \in { IF IsLumpSumMonth THEN p.initial_lump_sum_val ELSE 0 } :
       \E toProv \in { IF S2ToProvider THEN p.monthly_contribution_val ELSE 0 } :
       \E cum \in { cumulative_contributions_paid_to_provider + lump + toProv } :
       \E net \in { IF S2PensionDue THEN S2PensionNet ELSE 0 } :
       \E pot1 \in { pension_reinvestment_pot + net } :
       \E intNet \in { S2Interest(pot1) } :
       \E pot2 \in { pot1 + intNet } :
           /\ cumulative_contributions_paid_to_provider' = cum
           /\ pension_reinvestment_pot' = pot2
           /\ pension_reinvestment_interest_earned' =
                  pension_reinvestment_interest_earned + intNet
           /\ records' = Append(records,
                  [Date                        |-> YearMonth(current_date),
                   ContributionsPaidThisMonth  |-> lump + toProv,
                   CumulativeContributionsPaid |-> cum,
                   PensionReceivedNet          |-> net,
                   InterestOnReinvestmentNet   |-> intNet,
                   PensionReinvestmentPot      |-> pot2,
                   TotalAccumulatedValue       |-> pot2])
    /\ current_date' = AddMonth(current_date)
    /\ UNCHANGED <<pc, variant, p, monthly_sip_rate, monthly_reinvestment_rate, result,
                   sip_fund_balance, sip_fund_interest_earned,
                   total_tax_paid_on_pension, total_tax_paid_on_reinvestment_interest,
                   cmpVars, returned, session>>

\* the return
Scheme2Return ==
    /\ pc = "loop" /\ variant = "s2"
    /\ ~LoopCond
    /\ result' = [records |-> records,
                  total_interest_earned |-> pension_reinvestment_interest_earned,
                  final_value |-> pension_reinvestment_pot,
                  total_tax_paid_on_pension |-> total_tax_paid_on_pension,
                  total_tax_paid_on_reinvestment_interest |->
                      total_tax_paid_on_reinvestment_interest]
    /\ pc' = "done"
    /\ returned' = Append(returned, [variant |-> variant, p |-> p, result |-> result'])
    /\ UNCHANGED <<variant, p, monthly_sip_rate, monthly_reinvestment_rate, current_date, cumulative_contributions_paid_to_provider,
                   pension_reinvestment_pot, pension_reinvestment_interest_earned,
                   sip_fund_balance, sip_fund_interest_earned,
                   total_tax_paid_on_pension, total_tax_paid_on_reinvestment_interest,
                   records, cmpVars, session>>

-----------------------------------------------------------------------------
(* The arguments the simulators are run on *)

\* First month of the simulated window.
Base == [year |-> 2024, month |-> 11]

\* The date `i` months after Base, on day `d`.
DateAt(i, d) ==
    MkDate(Base.year + (Base.month - 1 + i) \div 12, ((Base.month - 1 + i) % 12) + 1, d)

\* Months since year 0 of a date or of a record's 'Date'.
MonthIndex(x) == x.year * 12 + x.month - 1

\* One money amount of the bounded runs: a multiple of (2*2)^(number of
\* months), so that halving it once for the rate and once for the tax in every
\* simulated month stays exact.
Unit == Pow(4, MaxMonth + 1)

\* (annual rate, compounding frequency) pairs of the reinvestment pot:
\* 0 % ; 600 % monthly = 50 % a month ; 2800 % quarterly = 100 % a month.
ReinvestmentRates ==
    { <<Frac(0, 1), 12>>, <<Frac(6, 1), 12>>, <<Frac(28, 1), 4>> }

\* of the side fund: 1200 % monthly = 100 % a month ; an unrecognised label (0).
SipRates ==
    { <<Frac(12, 1), 12>>, <<Frac(6, 1), 0>> }

\* labels that are none of the four the converter knows
UnrecognisedLabels == {"Weekly", "monthly", ""}

\* of the pot of variant B: the same as of variant A, and 600 % with an
\* unrecognised label
Scheme2ReinvestmentRates ==
    ReinvestmentRates \cup { <<Frac(6, 1), get_compounding_frequency_value("Weekly")>> }

\* (enable_tax, tax_rate)
TaxSettings ==
    { <<FALSE, Frac(1, 2)>>, <<TRUE, Frac(1, 2)>>, <<TRUE, Frac(1, 1)>> }

Scheme1Args ==
    { [end_date |-> DateAt(e, 1),
       initial_lump_sum_val |-> 3 * Unit,
       lump_sum_date_val |-> DateAt(l, 15),
       monthly_contribution_val |-> Unit,
       s1_contribution_to_provider_end_date_val |-> DateAt(ce, 28),
       s1_pension_amount |-> pa * Unit,
       s1_pension_start_date |-> DateAt(ps, 1),
       s1_reinvestment_rate |-> rr[1],
       s1_reinvestment_compounding_frequency |-> rr[2],
       s1_sip_fund_growth_rate |-> sr[1],
       s1_sip_fund_compounding_frequency |-> sr[2],
       s2_pension_start_date |-> DateAt(tr, 1),
       enable_tax |-> tx[1],
       tax_rate |-> tx[2]] :
       e \in 0..MaxMonth, l \in 0..1, ce \in 0..(MaxMonth - 1), pa \in {0, 2},
       ps \in 1..MaxMonth, rr \in ReinvestmentRates, sr \in SipRates,
       tr \in 0..(MaxMonth + 1), tx \in TaxSettings }

Scheme2Args ==
    { [end_date |-> DateAt(e, 1),
       initial_lump_sum_val |-> 3 * Unit,
       lump_sum_date_val |-> DateAt(l, 15),
       monthly_contribution_val |-> Unit,
       s2_contribution_to_provider_end_date_val |-> DateAt(ce, 28),
       s2_pension_amount |-> pa * Unit,
       s2_pension_start_date |-> DateAt(ps, 1),
       s2_reinvestment_rate |-> rr[1],
       s2_reinvestment_compounding_frequency |-> rr[2]] :
       e \in 0..MaxMonth, l \in 0..1, ce \in 0..MaxMonth, pa \in {0, 2},
       ps \in 0..MaxMonth, rr \in Scheme2ReinvestmentRates }

\* The worked scenarios.  An amount of x rupees, in money units of 1/200
\* rupee: with a monthly rate of 1/200 or 1/100 every product below is exact.
Rupees(x) == x * 200

\* Lump sum 100,000 at month 0, contribution 1,000 through month 11, pension
\* 5,000 a month from month 12, reinvestment 6 % compounded monthly, tax
\* disabled, horizon month 13.  The scenario leaves the side fund's rate and
\* the transition month of variant A open.
ScenarioScheme1Args ==
    { [end_date |-> DateAt(13, 1),
       initial_lump_sum_val |-> Rupees(100000),
       lump_sum_date_val |-> DateAt(0, 15),
       monthly_contribution_val |-> Rupees(1000),
       s1_contribution_to_provider_end_date_val |-> DateAt(11, 28),
       s1_pension_amount |-> Rupees(5000),
       s1_pension_start_date |-> DateAt(12, 1),
       s1_reinvestment_rate |-> Frac(6, 100),
       s1_reinvestment_compounding_frequency |-> get_compounding_frequency_value("Monthly"),
       s1_sip_fund_growth_rate |-> sr,
       s1_sip_fund_compounding_frequency |-> get_compounding_frequency_value("Monthly"),
       s2_pension_start_date |-> DateAt(tr, 1),
       enable_tax |-> FALSE,
       tax_rate |-> Frac(0, 1)] :
       sr \in {Frac(0, 1), Frac(12, 100)}, tr \in 11..15 }

ScenarioScheme2Args ==
    { [end_date |-> DateAt(13, 1),
       initial_lump_sum_val |-> Rupees(100000),
       lump_sum_date_val |-> DateAt(0, 15),
       monthly_contribution_val |-> Rupees(1000),
       s2_contribution_to_provider_end_date_val |-> DateAt(11, 28),
       s2_pension_amount |-> Rupees(5000),
       s2_pension_start_date |-> DateAt(12, 1),
       s2_reinvestment_rate |-> Frac(6, 100),
       s2_reinvestment_compounding_frequency |-> get_compounding_frequency_value("Monthly")] }

\* Tax enabled at 30 %, pension 10,000 a month starting before the transition
\* month (month 12; transition at month 14), no reinvestment growth.
TaxScenarioArgs ==
    { [end_date |-> DateAt(15, 1),
       initial_lump_sum_val |-> Rupees(100000),
       lump_sum_date_val |-> DateAt(0, 15),
       monthly_contribution_val |-> Rupees(1000),
       s1_contribution_to_provider_end_date_val |-> DateAt(11, 28),
       s1_pension_amount |-> Rupees(10000),
       s1_pension_start_date |-> DateAt(12, 1),
       s1_reinvestment_rate |-> Frac(0, 1),
       s1_reinvestment_compounding_frequency |-> get_compounding_frequency_value("Monthly"),
       s1_sip_fund_growth_rate |-> Frac(12, 100),
       s1_sip_fund_compounding_frequency |-> get_compounding_frequency_value("Monthly"),
       s2_pension_start_date |-> DateAt(14, 1),
       enable_tax |-> TRUE,
       tax_rate |-> Frac(30, 100)] }

\* The state at loop entry: the locals as initialised before the loop.
SimEntry(v, args) ==
    /\ pc = "loop"
    /\ variant = v
    /\ p = args
    /\ monthly_sip_rate =
           IF v = "s1" THEN monthly_sip_rate_s1(args) ELSE ZeroRate
    /\ monthly_reinvestment_rate =
           IF v = "s1" THEN monthly_reinvestment_rate_s1(args)
                       ELSE monthly_reinvestment_rate_s2(args)
    /\ current_date = FirstOfMonth(args.lump_sum_date_val)
    /\ cumulative_contributions_paid_to_provider = 0
    /\ pension_reinvestment_pot = 0
    /\ pension_reinvestment_interest_earned = 0
    /\ sip_fund_balance = 0
    /\ sip_fund_interest_earned = 0
    /\ total_tax_paid_on_pension = 0
    /\ total_tax_paid_on_reinvestment_interest = 0
    /\ records = <<>>
    /\ result = [records |-> <<>>]

\* st.session_state while the calculator page is not running: page = 'home'
NoSession == [page |-> "home"]
CmpIdle ==
    /\ s1_records = <<>>
    /\ s2_records = <<>>
    /\ s3_records = <<>>
    /\ combined_df = <<>>
    /\ idx = 0
    /\ prev_s1 = 0
    /\ prev_s2 = 0
    /\ prev_s3 = 0
    /\ overtakes = <<>>
    /\ ranking = <<>>

Init ==
    /\ \/ \E args \in Scheme1Args \cup ScenarioScheme1Args \cup TaxScenarioArgs :
              SimEntry("s1", args)
       \/ \E args \in Scheme2Args \cup ScenarioScheme2Args : SimEntry("s2", args)
    /\ CmpIdle
    /\ returned = <<>>
    /\ session = NoSession

Next ==
    \/ Scheme1Step
    \/ Scheme1Return
    \/ Scheme2Step
    \/ Scheme2Return

Spec == Init /\ [][Next]_vars

-----------------------------------------------------------------------------
(* The simulators called several times, one call after the other *)

RepeatScheme1Args ==
    { [end_date |-> DateAt(e, 1),
       initial_lump_sum_val |-> 3 * Unit,
       lump_sum_date_val |-> DateAt(0, 15),
       monthly_contribution_val |-> Unit,
       s1_contribution_to_provider_end_date_val |-> DateAt(0, 28),
       s1_pension_amount |-> 2 * Unit,
       s1_pension_start_date |-> DateAt(1, 1),
       s1_reinvestment_rate |-> Frac(6, 1),
       s1_reinvestment_compounding_frequency |-> 12,
       s1_sip_fund_growth_rate |-> Frac(12, 1),
       s1_sip_fund_compounding_frequency |-> 12,
       s2_pension_start_date |-> DateAt(3, 1),
       enable_tax |-> tx[1],
       tax_rate |-> tx[2]] :
       e \in {MaxMonth - 1, MaxMonth}, tx \in TaxSettings }

RepeatScheme2Args ==
    { [end_date |-> DateAt(e, 1),
       initial_lump_sum_val |-> 3 * Unit,
       lump_sum_date_val |-> DateAt(0, 15),
       monthly_contribution_val |-> Unit,
       s2_contribution_to_provider_end_date_val |-> DateAt(0, 28),
       s2_pension_amount |-> 2 * Unit,
       s2_pension_start_date |-> DateAt(1, 1),
       s2_reinvestment_rate |-> Frac(6, 1),
       s2_reinvestment_compounding_frequency |-> 12] :
       e \in {MaxMonth - 1, MaxMonth} }

\* Mutant: the list of records outlives the call (one list shared by all calls).
NewRecords_Shared(left_by_earlier_calls) == left_by_earlier_calls

\* records = []  : each call builds a new list
NewRecords(left_by_earlier_calls) == <<>>

\* a further call of calculate_scheme1_logic: the statements before its loop
Scheme1Call(args) ==
    /\ pc = "done"
    /\ Len(returned) < MaxCalls
    /\ pc' = "loop"
    /\ variant' = "s1"
    /\ p' = args
    /\ records' = NewRecords(records)
    /\ cumulative_contributions_paid_to_provider' = 0
    /\ pension_reinvestment_pot' = 0
    /\ pension_reinvestment_interest_earned' = 0
    /\ sip_fund_balance' = 0
    /\ sip_fund_interest_earned' = 0
    /\ total_tax_paid_on_pension' = 0
    /\ total_tax_paid_on_reinvestment_interest' = 0
    /\ current_date' = FirstOfMonth(args.lump_sum_date_val)
    /\ monthly_sip_rate' = monthly_sip_rate_s1(args)
    /\ monthly_reinvestment_rate' = monthly_reinvestment_rate_s1(args)
    /\ UNCHANGED <<result, returned, cmpVars, session>>

\* a further call of calculate_scheme2_logic: the statements before its loop;
\* the function has no side fund, what an earlier call of the other simulator
\* left in those variables stays
Scheme2Call(args) ==
    /\ pc = "done"
    /\ Len(returned) < MaxCalls
    /\ pc' = "loop"
    /\ variant' = "s2"
    /\ p' = args
    /\ records' = NewRecords(records)
    /\ cumulative_contributions_paid_to_provider' = 0
    /\ pension_reinvestment_pot' = 0
    /\ pension_reinvestment_interest_earned' = 0
    /\ total_tax_paid_on_pension' = 0
    /\ total_tax_paid_on_reinvestment_interest' = 0
    /\ current_date' = FirstOfMonth(args.lump_sum_date_val)
    /\ monthly_reinvestment_rate' = monthly_reinvestment_rate_s2(args)
    /\ UNCHANGED <<result, returned, cmpVars, monthly_sip_rate,
                   sip_fund_balance, sip_fund_interest_earned, session>>

InitRepeat ==
    /\ \/ \E args \in RepeatScheme1Args : SimEntry("s1", args)
       \/ \E args \in RepeatScheme2Args : SimEntry("s2", args)
    /\ CmpIdle
    /\ returned = <<>>
    /\ session = NoSession

NextRepeat ==
    \/ Scheme1Step
    \/ Scheme1Return
    \/ Scheme2Step
    \/ Scheme2Return
    \/ \E args \in RepeatScheme1Args : Scheme1Call(args)
    \/ \E args \in RepeatScheme2Args : Scheme2Call(args)

SpecRepeat == InitRepeat /\ [][NextRepeat]_vars

-----------------------------------------------------------------------------
(* The simulators called again with other days of the month *)

\* a day late in the month that every month has
LateDay == 28

\* the date parameters of a simulator
DateFields(v) ==
    IF v = "s1"
    THEN {"end_date", "lump_sum_date_val", "s1_contribution_to_provider_end_date_val",
          "s1_pension_start_date", "s2_pension_start_date"}
    ELSE {"end_date", "lump_sum_date_val", "s2_contribution_to_provider_end_date_val",
          "s2_pension_start_date"}

SetDay(d, day) == MkDate(d.year, d.month, day)

\* the arguments with every date parameter of the set `fields` on day `day`
OnDay(args, fields, day) ==
    [f \in DOMAIN args |-> IF f \in fields THEN SetDay(args[f], day) ELSE args[f]]

\* the same months with other days: every date on the 1st, every date on the
\* late day, and one date on the late day with the others on the 1st
DayVariants(v, args) ==
    { OnDay(args, DateFields(v), 1), OnDay(args, DateFields(v), LateDay) }
    \cup
    { OnDay(OnDay(args, DateFields(v), 1), {f}, LateDay) : f \in DateFields(v) }

DaysScheme1Args ==
    UNION { DayVariants("s1", args) :
                args \in { a \in RepeatScheme1Args : a.end_date = DateAt(MaxMonth, 1) } }

DaysScheme2Args ==
    UNION { DayVariants("s2", args) :
                args \in { a \in RepeatScheme2Args : a.end_date = DateAt(MaxMonth, 1) } }

InitDays ==
    /\ \/ \E args \in DaysScheme1Args : SimEntry("s1", args)
       \/ \E args \in DaysScheme2Args : SimEntry("s2", args)
    /\ CmpIdle
    /\ returned = <<>>
    /\ session = NoSession

\* the same simulator is called again for the same months
Scheme1CallOtherDays ==
    /\ variant = "s1"
    /\ \E args \in DayVariants("s1", p) : Scheme1Call(args)

Scheme2CallOtherDays ==
    /\ variant = "s2"
    /\ \E args \in DayVariants("s2", p) : Scheme2Call(args)

NextDays ==
    \/ Scheme1Step
    \/ Scheme1Return
    \/ Scheme2Step
    \/ Scheme2Return
    \/ Scheme1CallOtherDays
    \/ Scheme2CallOtherDays

SpecDays == InitDays /\ [][NextDays]_vars

-----------------------------------------------------------------------------
(* The simulators run to their end, for every lump-sum month and horizon *)

TerminationScheme1Args ==
    { [end_date |-> DateAt(e, 1),
       initial_lump_sum_val |-> 3 * Unit,
       lump_sum_date_val |-> DateAt(l, 15),
       monthly_contribution_val |-> Unit,
       s1_contribution_to_provider_end_date_val |-> DateAt(1, 28),
       s1_pension_amount |-> 2 * Unit,
       s1_pension_start_date |-> DateAt(1, 1),
       s1_reinvestment_rate |-> Frac(6, 1),
       s1_reinvestment_compounding_frequency |-> 12,
       s1_sip_fund_growth_rate |-> Frac(12, 1),
       s1_sip_fund_compounding_frequency |-> 12,
       s2_pension_start_date |-> DateAt(3, 1),
       enable_tax |-> tx[1],
       tax_rate |-> tx[2]] :
       e \in 0..MaxMonth, l \in 0..MaxMonth, tx \in TaxSettings }

TerminationScheme2Args ==
    { [end_date |-> DateAt(e, 1),
       initial_lump_sum_val |-> 3 * Unit,
       lump_sum_date_val |-> DateAt(l, 15),
       monthly_contribution_val |-> Unit,
       s2_contribution_to_provider_end_date_val |-> DateAt(1, 28),
       s2_pension_amount |-> 2 * Unit,
       s2_pension_start_date |-> DateAt(3, 1),
       s2_reinvestment_rate |-> Frac(6, 1),
       s2_reinvestment_compounding_frequency |-> 12] :
       e \in 0..MaxMonth, l \in 0..MaxMonth }

InitTermination ==
    /\ \/ \E args \in TerminationScheme1Args : SimEntry("s1", args)
       \/ \E args \in TerminationScheme2Args : SimEntry("s2", args)
    /\ CmpIdle
    /\ returned = <<>>
    /\ session = NoSession

\* Each simulator is one sequential function: the statement that can run next
\* does run, which is weak fairness of its steps.
SpecTermination == InitTermination /\ [][Next]_vars /\ WF_vars(Next)

-----------------------------------------------------------------------------
(* The two simulators called on the same plan, variant A first *)

PairScheme1Args ==
    { [end_date |-> DateAt(e, 1),
       initial_lump_sum_val |-> 3 * Unit,
       lump_sum_date_val |-> DateAt(l, 15),
       monthly_contribution_val |-> Unit,
       s1_contribution_to_provider_end_date_val |-> DateAt(ce, 28),
       s1_pension_amount |-> 2 * Unit,
       s1_pension_start_date |-> DateAt(ps, 1),
       s1_reinvestment_rate |-> rr[1],
       s1_reinvestment_compounding_frequency |-> rr[2],
       s1_sip_fund_growth_rate |-> Frac(12, 1),
       s1_sip_fund_compounding_frequency |-> 12,
       s2_pension_start_date |-> DateAt(tr, 1),
       enable_tax |-> tx[1],
       tax_rate |-> tx[2]] :
       e \in 0..MaxMonth, l \in 0..1, ce \in 0..(MaxMonth - 1),
       ps \in 0..MaxMonth, rr \in ReinvestmentRates,
       tr \in 0..(MaxMonth + 1), tx \in TaxSettings }

\* the arguments of calculate_scheme2_logic that carry the same lump sum,
\* contribution, contribution end, pension amount, pension start,
\* reinvestment rate and frequency and horizon as `a`
Scheme2ArgsOf(a) ==
    [end_date |-> a.end_date,
     initial_lump_sum_val |-> a.initial_lump_sum_val,
     lump_sum_date_val |-> a.lump_sum_date_val,
     monthly_contribution_val |-> a.monthly_contribution_val,
     s2_contribution_to_provider_end_date_val |-> a.s1_contribution_to_provider_end_date_val,
     s2_pension_amount |-> a.s1_pension_amount,
     s2_pension_start_date |-> a.s1_pension_start_date,
     s2_reinvestment_rate |-> a.s1_reinvestment_rate,
     s2_reinvestment_compounding_frequency |-> a.s1_reinvestment_compounding_frequency]

InitPair ==
    /\ \E args \in PairScheme1Args : SimEntry("s1", args)
    /\ CmpIdle
    /\ returned = <<>>
    /\ session = NoSession

\* after variant A returned, variant B is called on the same plan
Scheme2CallSamePlan ==
    /\ variant = "s1"
    /\ Scheme2Call(Scheme2ArgsOf(p))

NextPair ==
    \/ Scheme1Step
    \/ Scheme1Return
    \/ Scheme2CallSamePlan
    \/ Scheme2Step
    \/ Scheme2Return

SpecPair == InitPair /\ [][NextPair]_vars

-----------------------------------------------------------------------------
(* Properties of the simulators *)

lumpIdx  == MonthIndex(p.lump_sum_date_val)
endIdx   == MonthIndex(p.end_date)
transIdx == MonthIndex(p.s2_pension_start_date)

contribEndIdx ==
    IF variant = "s1" THEN MonthIndex(p.s1_contribution_to_provider_end_date_val)
                      ELSE MonthIndex(p.s2_contribution_to_provider_end_date_val)

pensionStartIdx ==
    IF variant = "s1" THEN MonthIndex(p.s1_pension_start_date)
                      ELSE MonthIndex(p.s2_pension_start_date)

pensionAmount ==
    IF variant = "s1" THEN p.s1_pension_amount ELSE p.s2_pension_amount

Max(a, b) == IF a >= b THEN a ELSE b
Min(a, b) == IF a <= b THEN a ELSE b

\* value of a field of the record before records[i]; 0 before the first
PrevPot(i) == IF i = 1 THEN 0 ELSE records[i - 1].PensionReinvestmentPot
PrevSip(i) == IF i = 1 THEN 0 ELSE records[i - 1].SIPFundBalance
PrevTotal(i) == IF i = 1 THEN 0 ELSE records[i - 1].TotalAccumulatedValue

RECURSIVE SumTaxOnPension(_)
SumTaxOnPension(recs) ==
    IF recs = <<>> THEN 0
    ELSE recs[Len(recs)].TaxOnPension + SumTaxOnPension(SubSeq(recs, 1, Len(recs) - 1))

\* C1: when the horizon month is at or after the lump-sum month, the returned
\* records hold exactly one record for every calendar month from the lump-sum
\* month through the horizon month, in ascending order, each a valid calendar
\* month one after the previous record's month.
C1_OneRecordPerMonth ==
    /\ \A i \in 1..Len(records) :
           /\ records[i].Date.month \in 1..12
           /\ MonthIndex(records[i].Date) = lumpIdx + i - 1
    /\ (pc = "done" /\ endIdx >= lumpIdx) =>
           /\ result.records = records
           /\ Len(result.records) = endIdx - lumpIdx + 1

C1_Witness ==
    /\ pc = "done" /\ variant = "s1"
    /\ Len(result.records) >= 4
    /\ result.records[1].Date.year < result.records[Len(result.records)].Date.year

\* C2: when the horizon month is strictly before the lump-sum month the loop
\* body never runs and the function returns: the records are empty and total
\* interest, final value and both tax totals are zero.
C2_EmptyRange ==
    (endIdx < lumpIdx) =>
        /\ records = <<>>
        /\ pc = "loop" => ~LoopCond
        /\ pc = "done" =>
               /\ result.records = <<>>
               /\ result.total_interest_earned = 0
               /\ result.final_value = 0
               /\ result.total_tax_paid_on_pension = 0
               /\ result.total_tax_paid_on_reinvestment_interest = 0

C2_Witness ==
    pc = "done" /\ endIdx < lumpIdx /\ result.records = <<>>

\* C3: with non-negative amounts and rates and a tax rate in [0, 1], the total
\* accumulated value of every record is at least that of the previous record,
\* also across the side-fund merger month.
C3_TotalNonDecreasing ==
    \A i \in 2..Len(records) :
        records[i].TotalAccumulatedValue >= records[i - 1].TotalAccumulatedValue

C3_Witness ==
    /\ variant = "s1" /\ p.enable_tax
    /\ \E i \in 2..Len(records) :
           /\ MonthIndex(records[i].Date) = transIdx
           /\ records[i - 1].SIPFundBalance > 0
           /\ records[i - 1].PensionReinvestmentPot > 0
           /\ records[i].TotalAccumulatedValue > records[i - 1].TotalAccumulatedValue

\* C4: in every record of variant A the total accumulated value is the
\* reinvestment pot plus the side fund of that record, in variant B the pot
\* alone; the merger moves the side fund (it is zero in the merger month's
\* record and the merger itself leaves the total unchanged), so nothing is
\* counted in both pots.
C4_TotalIsPotPlusSideFund ==
    \A i \in 1..Len(records) :
        IF variant = "s1"
        THEN /\ records[i].TotalAccumulatedValue =
                    records[i].PensionReinvestmentPot + records[i].SIPFundBalance
             /\ MonthIndex(records[i].Date) = transIdx =>
                    /\ records[i].SIPFundBalance = 0
                    /\ records[i].TotalAccumulatedValue =
                           PrevTotal(i) + records[i].PensionReceivedNet
                                        + records[i].InterestOnReinvestmentNet
        ELSE records[i].TotalAccumulatedValue = records[i].PensionReinvestmentPot

C4_Witness ==
    /\ variant = "s1"
    /\ \E i \in 2..Len(records) :
           /\ MonthIndex(records[i].Date) = transIdx
           /\ records[i - 1].SIPFundBalance > 0
           /\ records[i - 1].PensionReinvestmentPot > 0
           /\ records[i].PensionReinvestmentPot > records[i - 1].PensionReinvestmentPot

\* C5: in variant A the gross pension is received in every month at or after
\* the pension start month; when tax is enabled and the month is strictly
\* before the transition month the tax is tax_rate * gross and net = gross -
\* tax; the net is what enters the reinvestment pot and the pension-tax total
\* grows by exactly the tax; before the pension start month gross, net and tax
\* are zero.
C5_PensionPayout ==
    variant = "s1" =>
        /\ \A i \in 1..Len(records) :
               LET r == records[i]
                   m == MonthIndex(r.Date)
               IN  /\ m >= pensionStartIdx => r.PensionReceivedGross = p.s1_pension_amount
                   /\ (m >= pensionStartIdx /\ p.enable_tax /\ m < transIdx) =>
                          /\ r.TaxOnPension * p.tax_rate.den =
                                 r.PensionReceivedGross * p.tax_rate.num
                          /\ r.PensionReceivedNet = r.PensionReceivedGross - r.TaxOnPension
                   /\ m < pensionStartIdx =>
                          /\ r.PensionReceivedGross = 0
                          /\ r.PensionReceivedNet = 0
                          /\ r.TaxOnPension = 0
                   /\ r.PensionReinvestmentPot =
                          PrevPot(i) + r.PensionReceivedNet
                                     + (IF m = transIdx THEN PrevSip(i) ELSE 0)
                                     + r.InterestOnReinvestmentNet
        /\ total_tax_paid_on_pension = SumTaxOnPension(records)

C5_Witness ==
    /\ variant = "s1" /\ pc = "done" /\ p.enable_tax /\ p.tax_rate = Frac(30, 100)
    /\ p.s1_pension_amount = Rupees(10000)
    /\ \E i \in 1..Len(records) :
           /\ records[i].PensionReceivedNet = Rupees(7000)
           /\ records[i].TaxOnPension = Rupees(3000)
    /\ result.total_tax_paid_on_pension = Rupees(6000)

\* C6: in variant A, in every month at or after the transition month the tax
\* on pension and the tax on reinvestment interest are zero, the net pension
\* is the gross pension and the interest added to the pot is the full
\* pot * rate, even with tax enabled; both running tax totals stay unchanged
\* by every step taken at or after the transition month.
C6_RecordsUntaxed ==
    variant = "s1" =>
        \A i \in 1..Len(records) :
            LET r == records[i]
            IN  MonthIndex(r.Date) >= transIdx =>
                    /\ r.TaxOnPension = 0
                    /\ r.TaxOnReinvestmentInterest = 0
                    /\ r.PensionReceivedNet = r.PensionReceivedGross
                    /\ r.InterestOnReinvestmentNet * monthly_reinvestment_rate.den =
                           (r.PensionReinvestmentPot - r.InterestOnReinvestmentNet)
                               * monthly_reinvestment_rate.num

C6_TotalsFrozen ==
    (variant = "s1" /\ pc = "loop" /\ MonthIndex(current_date) >= transIdx) =>
        /\ total_tax_paid_on_pension' = total_tax_paid_on_pension
        /\ total_tax_paid_on_reinvestment_interest' = total_tax_paid_on_reinvestment_interest

\* C6: no record at or after the transition month shows a tax (C6_RecordsUntaxed)
\* and no step taken at or after it changes a running tax total (C6_TotalsFrozen).
C6_NoTaxFromTransition == [](C6_RecordsUntaxed) /\ [][C6_TotalsFrozen]_vars

C6_Witness ==
    /\ variant = "s1" /\ p.enable_tax /\ p.tax_rate.num > 0
    /\ total_tax_paid_on_pension > 0
    /\ total_tax_paid_on_reinvestment_interest > 0
    /\ \E i \in 2..Len(records) :
           /\ MonthIndex(records[i].Date) > transIdx
           /\ records[i].PensionReceivedGross > 0
           /\ records[i].InterestOnReinvestmentNet > 0

\* C7: variant B never taxes: both tax totals are zero in every state and in
\* the returned tuple, and the net pension of every record at or after the
\* pension start month is the full pension amount.
C7_Scheme2NeverTaxes ==
    variant = "s2" =>
        /\ total_tax_paid_on_pension = 0
        /\ total_tax_paid_on_reinvestment_interest = 0
        /\ pc = "done" =>
               /\ result.total_tax_paid_on_pension = 0
               /\ result.total_tax_paid_on_reinvestment_interest = 0
        /\ \A i \in 1..Len(records) :
               MonthIndex(records[i].Date) >= pensionStartIdx =>
                   records[i].PensionReceivedNet = p.s2_pension_amount

C7_Witness ==
    /\ variant = "s2" /\ pc = "done"
    /\ \E i \in 1..Len(result.records) :
           /\ result.records[i].PensionReceivedNet > 0
           /\ result.records[i].InterestOnReinvestmentNet > 0

\* C8: cumulative contributions paid in the record of month m is the lump sum
\* (once, in the lump-sum month) plus monthly_contribution times the number of
\* simulated months from the lump-sum month through min(m, contribution end
\* month); it does not change after the contribution end month.  In the
\* scenario (100,000 at month 0, 1,000 through month 11, horizon month 13) the
\* final figure is 112,000.
C8_CumulativeContributions ==
    /\ \A i \in 1..Len(records) :
           LET m == MonthIndex(records[i].Date)
           IN  /\ records[i].CumulativeContributionsPaid =
                      p.initial_lump_sum_val
                      + p.monthly_contribution_val
                            * Max(0, Min(m, contribEndIdx) - lumpIdx + 1)
               /\ (i > 1 /\ m > contribEndIdx) =>
                      records[i].CumulativeContributionsPaid =
                          records[i - 1].CumulativeContributionsPaid
    /\ (pc = "done" /\ p \in ScenarioScheme1Args \cup ScenarioScheme2Args) =>
           result.records[Len(result.records)].CumulativeContributionsPaid = Rupees(112000)

C8_Witness ==
    /\ pc = "done" /\ variant = "s1" /\ p \in ScenarioScheme1Args
    /\ Len(result.records) = 14
    /\ result.records[12].CumulativeContributionsPaid = Rupees(112000)
    /\ result.records[14].CumulativeContributionsPaid = Rupees(112000)

InScenario == p \in ScenarioScheme1Args \cup ScenarioScheme2Args

\* side-fund balance merged into the pot in the record of month 13 (variant A
\* with the transition month at month 13), else 0
MergedAtMonth13 ==
    IF variant = "s1" /\ transIdx = lumpIdx + 13 THEN records[13].SIPFundBalance ELSE 0

\* C9 as stated: in the scenario the record of month 13 shows a reinvestment
\* pot of 5,000 * (1 + monthly_rate) plus the month-12 pension compounded one
\* period, 5,000 * (1 + monthly_rate).
C9_AsStated ==
    (pc = "done" /\ InScenario) =>
        records[14].PensionReinvestmentPot * monthly_reinvestment_rate.den =
            2 * pensionAmount * (monthly_reinvestment_rate.den + monthly_reinvestment_rate.num)

\* C9 amended: the monthly rate is 0.5 %; the pot of month 12 is 5,000 * (1 +
\* rate), and the pot of month 13 is (pot of month 12 + 5,000 + the side fund
\* merged in month 13) * (1 + rate): the month-12 pension has been compounded
\* twice, in month 12 and in month 13.
C9_Month13Pot ==
    (pc = "done" /\ InScenario) =>
        LET r == monthly_reinvestment_rate
        IN  /\ r = Frac(1, 200)
            /\ records[13].PensionReinvestmentPot * r.den = pensionAmount * (r.den + r.num)
            /\ records[14].PensionReinvestmentPot * r.den =
                   (records[13].PensionReinvestmentPot + pensionAmount + MergedAtMonth13)
                       * (r.den + r.num)

\* 10,075.125 rupees = 5,000 * 1.005 + 5,000 * 1.005^2
C9_Witness ==
    /\ pc = "done" /\ variant = "s2" /\ InScenario
    /\ records[14].PensionReinvestmentPot = Rupees(10075) + 25

-----------------------------------------------------------------------------
(* calculations.py: analyze_scheme_performance *)

Scheme58 == "Pension Scheme 58 Years Old"
Scheme60 == "Pension Scheme 60 Years Old"

\* The 'Date' values of a list of records.
DatesOf(recs) == {recs[k].Date : k \in 1..Len(recs)}

\* The row of a frame for a 'Date'.  Each series holds a 'Date' at most once,
\* as the simulators produce it.
RowOf(recs, d) == CHOOSE k \in 1..Len(recs) : recs[k].Date = d

\* The value a frame contributes for a 'Date': 0 where it has no row (fillna(0)).
TotalAt(recs, d) ==
    IF d \in DatesOf(recs) THEN recs[RowOf(recs, d)].TotalAccumulatedValue ELSE 0

\* sort_values('Date'): the dates of a set in ascending order
RECURSIVE SortDates(_)
SortDates(ds) ==
    IF ds = {} THEN <<>>
    ELSE LET first == CHOOSE d \in ds : \A e \in ds : MonthIndex(d) <= MonthIndex(e)
         IN  <<first>> \o SortDates(ds \ {first})

\* Mutant: an inner join, which keeps only the months both series have.
Merge_Inner(r1, r2) ==
    LET dates == SortDates(DatesOf(r1) \cap DatesOf(r2))
    IN  [k \in 1..Len(dates) |->
            [Date |-> dates[k], s1 |-> TotalAt(r1, dates[k]), s2 |-> TotalAt(r2, dates[k])]]

\* df1.merge(df2, on='Date', how='outer').fillna(0), sorted by 'Date'
Merge(r1, r2) ==
    LET dates == SortDates(DatesOf(r1) \cup DatesOf(r2))
    IN  [k \in 1..Len(dates) |->
            [Date |-> dates[k], s1 |-> TotalAt(r1, dates[k]), s2 |-> TotalAt(r2, dates[k])]]

\* pd.DataFrame(records)[['Date', 'Total Accumulated Value (User)']] raises
\* KeyError for an empty list of records: the frame has no columns.
SelectRaises(recs) == recs = <<>>

\* Mutant: the previous values are seeded from the first row.
PrevSeed_FirstRow(first_val) == first_val

\* prev_s1 = 0 ; prev_s2 = 0
PrevSeed(first_val) == 0

\* get_combined_dataframe: an empty frame when either list is empty, else the
\* same merge as in the analyzer
get_combined_dataframe(r1, r2) ==
    IF r1 = <<>> \/ r2 = <<>> THEN <<>> ELSE Merge(r1, r2)

\* the statements before the loop
AnalyzeEnter ==
    /\ pc = "call" /\ variant = "cmp"
    /\ IF SelectRaises(s1_records) \/ SelectRaises(s2_records)
       THEN /\ pc' = "raised"
            /\ UNCHANGED <<combined_df, idx, prev_s1, prev_s2, overtakes, ranking>>
       ELSE LET merged == Merge(s1_records, s2_records)
            IN  /\ combined_df' = merged
                /\ overtakes' = <<>>
                /\ IF merged = <<>>
                   THEN /\ pc' = "returned"
                        /\ ranking' = <<>>
                        /\ UNCHANGED <<idx, prev_s1, prev_s2>>
                   ELSE /\ pc' = "scan"
                        /\ prev_s1' = PrevSeed(merged[1].s1)
                        /\ prev_s2' = PrevSeed(merged[1].s2)
                        /\ idx' = 1
                        /\ UNCHANGED ranking
    /\ UNCHANGED <<variant, simVars, returned, s1_records, s2_records, s3_records, prev_s3, session>>

\* Mutant: the overtaker must have been strictly below before.
Overtakes_StrictlyBelow(cur_x, cur_y, prev_x, prev_y) ==
    cur_x > cur_y /\ prev_x < prev_y /\ cur_x > 0

\* Mutant: being level with the other scheme already counts as overtaking.
Overtakes_NonStrict(cur_x, cur_y, prev_x, prev_y) ==
    cur_x >= cur_y /\ prev_x <= prev_y /\ cur_x > 0

\* if s1_val > s2_val and prev_s1 <= prev_s2 and s1_val > 0
Overtakes(cur_x, cur_y, prev_x, prev_y) ==
    cur_x > cur_y /\ prev_x <= prev_y /\ cur_x > 0

\* stands for the string "{x} overtakes {y} on {date}"
Event(x, y, date) == [overtaking |-> x, overtaken |-> y, month |-> date]

\* one iteration of: for i in range(len(combined_df))
AnalyzeStep ==
    /\ pc = "scan" /\ variant = "cmp"
    /\ idx <= Len(combined_df)
    /\ LET row == combined_df[idx]
           e1  == IF Overtakes(row.s1, row.s2, prev_s1, prev_s2)
                  THEN <<Event(Scheme58, Scheme60, row.Date)>> ELSE <<>>
           e2  == IF Overtakes(row.s2, row.s1, prev_s2, prev_s1)
                  THEN <<Event(Scheme60, Scheme58, row.Date)>> ELSE <<>>
       IN  /\ overtakes' = overtakes \o e1 \o e2
           /\ prev_s1' = row.s1
           /\ prev_s2' = row.s2
    /\ idx' = idx + 1
    /\ UNCHANGED <<pc, variant, simVars, returned, s1_records, s2_records, s3_records, prev_s3,
                   combined_df, ranking, session>>

\* Mutant: an unstable sort that puts scheme 60 first when the values are equal.
RankingOf_TiesReversed(v1, v2) ==
    IF v1 > v2
    THEN << [rank |-> 1, scheme |-> Scheme58, value |-> v1],
            [rank |-> 2, scheme |-> Scheme60, value |-> v2] >>
    ELSE << [rank |-> 1, scheme |-> Scheme60, value |-> v2],
            [rank |-> 2, scheme |-> Scheme58, value |-> v1] >>

\* sorted(final_values.items(), key=value, reverse=True), numbered from 1;
\* the sort is stable, so equal values keep the order 58, 60.  An entry stands
\* for the string "{rank}. {scheme} ({value})".
RankingOf(v1, v2) ==
    IF v1 >= v2
    THEN << [rank |-> 1, scheme |-> Scheme58, value |-> v1],
            [rank |-> 2, scheme |-> Scheme60, value |-> v2] >>
    ELSE << [rank |-> 1, scheme |-> Scheme60, value |-> v2],
            [rank |-> 2, scheme |-> Scheme58, value |-> v1] >>

\* ranking = ["No data to determine ranking."]
NoDataRanking == << "No data to determine ranking." >>

\* the statements after the loop, and the return
AnalyzeRank ==
    /\ pc = "scan" /\ variant = "cmp"
    /\ idx > Len(combined_df)
    /\ ranking' = IF combined_df # <<>>
                  THEN RankingOf(combined_df[Len(combined_df)].s1,
                                 combined_df[Len(combined_df)].s2)
                  ELSE NoDataRanking
    /\ pc' = "returned"
    /\ UNCHANGED <<variant, simVars, returned, s1_records, s2_records, s3_records, combined_df, idx,
                   prev_s1, prev_s2, prev_s3, overtakes, session>>

-----------------------------------------------------------------------------
(* pension_calculator.py: analyze_scheme_performance, the three-scheme analyzer *)

Scheme1 == "Scheme 1"
Scheme2 == "Scheme 2"
Scheme3 == "Scheme 3"

\* The 'Total Value' a frame contributes for a 'Date': 0 where it has no row.
TotalValueAt(recs, d) ==
    IF d \in DatesOf(recs) THEN recs[RowOf(recs, d)].TotalValue ELSE 0

\* df1.merge(df2, on='Date', how='outer').merge(df3, on='Date', how='outer')
\*    .fillna(0), sorted by 'Date'
Merge3(r1, r2, r3) ==
    LET dates == SortDates(DatesOf(r1) \cup DatesOf(r2) \cup DatesOf(r3))
    IN  [k \in 1..Len(dates) |->
            [Date |-> dates[k],
             s1 |-> TotalValueAt(r1, dates[k]),
             s2 |-> TotalValueAt(r2, dates[k]),
             s3 |-> TotalValueAt(r3, dates[k])]]

\* pd.DataFrame(records)[['Date', 'Total Value']] raises KeyError for an empty
\* list of records.
Select3Raises(recs) == recs = <<>>

\* the statements before the loop: the previous values are those of the first
\* row, and the loop is  for i in range(1, len(combined_df))
Analyze3Enter ==
    /\ pc = "call" /\ variant = "cmp3"
    /\ IF Select3Raises(s1_records) \/ Select3Raises(s2_records) \/ Select3Raises(s3_records)
       THEN /\ pc' = "raised"
            /\ UNCHANGED <<combined_df, idx, prev_s1, prev_s2, prev_s3, overtakes, ranking>>
       ELSE LET merged == Merge3(s1_records, s2_records, s3_records)
            IN  /\ combined_df' = merged
                /\ overtakes' = <<>>
                /\ IF merged = <<>>
                   THEN /\ pc' = "returned"
                        /\ ranking' = <<>>
                        /\ UNCHANGED <<idx, prev_s1, prev_s2, prev_s3>>
                   ELSE /\ pc' = "scan"
                        /\ prev_s1' = merged[1].s1
                        /\ prev_s2' = merged[1].s2
                        /\ prev_s3' = merged[1].s3
                        /\ idx' = 2
                        /\ UNCHANGED ranking
    /\ UNCHANGED <<variant, simVars, returned, s1_records, s2_records, s3_records, session>>

\* if sX_val > sY_val and prev_sX <= prev_sY and sX_val > 0 and sY_val > 0
Overtakes3(cur_x, cur_y, prev_x, prev_y) ==
    cur_x > cur_y /\ prev_x <= prev_y /\ cur_x > 0 /\ cur_y > 0

\* the event of one of the six tests, or nothing
Event3(x, y, cur_x, cur_y, prev_x, prev_y, date) ==
    IF Overtakes3(cur_x, cur_y, prev_x, prev_y) THEN <<Event(x, y, date)>> ELSE <<>>

\* one iteration of: for i in range(1, len(combined_df)); the six tests in the
\* order of the code
Analyze3Step ==
    /\ pc = "scan" /\ variant = "cmp3"
    /\ idx <= Len(combined_df)
    /\ LET row == combined_df[idx]
       IN  /\ overtakes' = overtakes
                  \o Event3(Scheme1, Scheme2, row.s1, row.s2, prev_s1, prev_s2, row.Date)
                  \o Event3(Scheme1, Scheme3, row.s1, row.s3, prev_s1, prev_s3, row.Date)
                  \o Event3(Scheme2, Scheme1, row.s2, row.s1, prev_s2, prev_s1, row.Date)
                  \o Event3(Scheme2, Scheme3, row.s2, row.s3, prev_s2, prev_s3, row.Date)
                  \o Event3(Scheme3, Scheme1, row.s3, row.s1, prev_s3, prev_s1, row.Date)
                  \o Event3(Scheme3, Scheme2, row.s3, row.s2, prev_s3, prev_s2, row.Date)
           /\ prev_s1' = row.s1
           /\ prev_s2' = row.s2
           /\ prev_s3' = row.s3
    /\ idx' = idx + 1
    /\ UNCHANGED <<pc, variant, simVars, returned, s1_records, s2_records, s3_records,
                   combined_df, ranking, session>>

\* sorted(..., reverse=True) is stable: an item goes behind every item whose
\* value is greater than or equal to its own.
RECURSIVE InsertDesc(_, _)
InsertDesc(sorted_items, item) ==
    IF sorted_items = <<>> THEN <<item>>
    ELSE IF Head(sorted_items).value >= item.value
         THEN <<Head(sorted_items)>> \o InsertDesc(Tail(sorted_items), item)
         ELSE <<item>> \o sorted_items

\* sorted(final_values.items(), key=lambda item: item[1], reverse=True)
RECURSIVE SortedSchemes(_)
SortedSchemes(items) ==
    IF items = <<>> THEN <<>>
    ELSE InsertDesc(SortedSchemes(SubSeq(items, 1, Len(items) - 1)), items[Len(items)])

\* the ranking strings "{i+1}. {scheme_name} ({value})"
Ranking3Of(v1, v2, v3) ==
    LET sorted_schemes == SortedSchemes(<< [scheme |-> Scheme1, value |-> v1],
                                           [scheme |-> Scheme2, value |-> v2],
                                           [scheme |-> Scheme3, value |-> v3] >>)
    IN  [k \in 1..Len(sorted_schemes) |->
            [rank |-> k, scheme |-> sorted_schemes[k].scheme,
             value |-> sorted_schemes[k].value]]

\* the statements after the loop, and the return
Analyze3Rank ==
    /\ pc = "scan" /\ variant = "cmp3"
    /\ idx > Len(combined_df)
    /\ ranking' = IF combined_df # <<>>
                  THEN Ranking3Of(combined_df[Len(combined_df)].s1,
                                  combined_df[Len(combined_df)].s2,
                                  combined_df[Len(combined_df)].s3)
                  ELSE NoDataRanking
    /\ pc' = "returned"
    /\ UNCHANGED <<variant, simVars, returned, s1_records, s2_records, s3_records, combined_df, idx,
                   prev_s1, prev_s2, prev_s3, overtakes, session>>

-----------------------------------------------------------------------------
(* The series the analyzers are run on *)

SeriesValues == {0, 50, 100}

\* The series of `n` consecutive months from month `start` with the totals vs.
Series(start, vs) ==
    [k \in 1..Len(vs) |->
        [Date |-> YearMonth(DateAt(start + k - 1, 1)), TotalAccumulatedValue |-> vs[k]]]

\* Every series of consecutive months with these totals that lies within the
\* first MaxLen months, and the series 0, 50, 150 of the months 0, 1, 2.
SeriesSet ==
    UNION { UNION { { Series(start, vs) : vs \in [1..n -> SeriesValues] } :
                    n \in 0..(MaxLen - start) } :
            start \in 0..MaxLen }
    \cup { Series(0, <<0, 50, 150>>) }

\* The records of the three-scheme program carry the total as 'Total Value'.
Series3Values == {0, 50, 100}

Series3(start, vs) ==
    [k \in 1..Len(vs) |->
        [Date |-> YearMonth(DateAt(start + k - 1, 1)), TotalValue |-> vs[k]]]

\* Every such series of consecutive months within the first MaxLen3 months
\* that starts in month 0 or later than `late` months at most.
Series3Set(late) ==
    UNION { UNION { { Series3(start, vs) : vs \in [1..n -> Series3Values] } :
                    n \in 0..(MaxLen3 - start) } :
            start \in 0..late }

SimIdle ==
    /\ p = <<>>
    /\ monthly_sip_rate = ZeroRate
    /\ monthly_reinvestment_rate = ZeroRate
    /\ current_date = DateAt(0, 1)
    /\ cumulative_contributions_paid_to_provider = 0
    /\ pension_reinvestment_pot = 0
    /\ pension_reinvestment_interest_earned = 0
    /\ sip_fund_balance = 0
    /\ sip_fund_interest_earned = 0
    /\ total_tax_paid_on_pension = 0
    /\ total_tax_paid_on_reinvestment_interest = 0
    /\ records = <<>>
    /\ result = [records |-> <<>>]

InitCompare ==
    /\ pc = "call"
    /\ SimIdle
    /\ \/ /\ variant = "cmp"
          /\ s1_records \in SeriesSet
          /\ s2_records \in SeriesSet
          /\ s3_records = <<>>
       \/ /\ variant = "cmp3"
          /\ s1_records \in Series3Set(0)
          /\ s2_records \in Series3Set(0)
          /\ s3_records \in Series3Set(1)
    /\ combined_df = <<>>
    /\ idx = 0
    /\ prev_s1 = 0
    /\ prev_s2 = 0
    /\ prev_s3 = 0
    /\ overtakes = <<>>
    /\ ranking = <<>>
    /\ returned = <<>>
    /\ session = NoSession

NextCompare ==
    \/ AnalyzeEnter
    \/ AnalyzeStep
    \/ AnalyzeRank
    \/ Analyze3Enter
    \/ Analyze3Step
    \/ Analyze3Rank

SpecCompare == InitCompare /\ [][NextCompare]_vars

-----------------------------------------------------------------------------
(* The rate converter called on its own *)

\* the annual rates -MaxRatePercent % .. MaxRatePercent %
AnnualRates == { Frac(n, 100) : n \in (0 - MaxRatePercent)..MaxRatePercent }

\* compounding frequencies: 0, those of the four labels, and others
Frequencies == {0, 1, 2, 4, 12, 24, 52, 365}

\* The arguments of get_monthly_rate: every rate with the frequencies 0, 12 and
\* 24 (whose monthly rate is a fraction), the rate 0 with every frequency, and
\* 2800 % compounded quarterly (100 % a month).
RateArgs ==
    { [annual_rate |-> r, compounding_frequency_value |-> f] :
          r \in AnnualRates, f \in {0, 12, 24} }
    \cup
    { [annual_rate |-> Frac(0, 1), compounding_frequency_value |-> f] : f \in Frequencies }
    \cup
    { [annual_rate |-> Frac(28, 1), compounding_frequency_value |-> 4] }

InitRate ==
    /\ pc = "call"
    /\ variant \in {"rate", "rate_pc"}
    /\ p \in RateArgs
    /\ monthly_sip_rate = ZeroRate
    /\ monthly_reinvestment_rate = ZeroRate
    /\ current_date = DateAt(0, 1)
    /\ cumulative_contributions_paid_to_provider = 0
    /\ pension_reinvestment_pot = 0
    /\ pension_reinvestment_interest_earned = 0
    /\ sip_fund_balance = 0
    /\ sip_fund_interest_earned = 0
    /\ total_tax_paid_on_pension = 0
    /\ total_tax_paid_on_reinvestment_interest = 0
    /\ records = <<>>
    /\ result = <<>>
    /\ CmpIdle
    /\ returned = <<>>
    /\ session = NoSession

\* the call returns its value, or a raised ZeroDivisionError leaves it
Returns(value) ==
    /\ result' = value
    /\ pc' = IF value = ZeroDivisionError THEN "raised" ELSE "returned"
    /\ UNCHANGED <<returned, variant, p, monthly_sip_rate, monthly_reinvestment_rate, current_date,
                   cumulative_contributions_paid_to_provider,
                   pension_reinvestment_pot, pension_reinvestment_interest_earned,
                   sip_fund_balance, sip_fund_interest_earned,
                   total_tax_paid_on_pension, total_tax_paid_on_reinvestment_interest,
                   records, cmpVars, session>>

\* utils.get_monthly_rate(annual_rate, compounding_frequency_value)
GetMonthlyRate ==
    /\ pc = "call" /\ variant = "rate"
    /\ Returns(get_monthly_rate(p.annual_rate, p.compounding_frequency_value))

\* pension_calculator.get_monthly_rate(annual_rate, compounding_frequency_value)
GetMonthlyRatePC ==
    /\ pc = "call" /\ variant = "rate_pc"
    /\ Returns(pension_calculator_get_monthly_rate(p.annual_rate,
                                                   p.compounding_frequency_value))

NextRate ==
    \/ GetMonthlyRate
    \/ GetMonthlyRatePC

SpecRate == InitRate /\ [][NextRate]_vars

-----------------------------------------------------------------------------
(* Properties of the analyzer *)

Month(i) == YearMonth(DateAt(i, 1))

\* series A = [0, 50, 150] and series B = [0, 100, 100] at months 0, 1, 2
IsExampleInput ==
    /\ s1_records = Series(0, <<0, 50, 150>>)
    /\ s2_records = Series(0, <<0, 100, 100>>)

ExampleRanking ==
    << [rank |-> 1, scheme |-> Scheme58, value |-> 150],
       [rank |-> 2, scheme |-> Scheme60, value |-> 100] >>

\* C10 as stated: for A = [0, 50, 150] and B = [0, 100, 100] the analyzer
\* reports exactly one overtake event, A overtakes B at month 2, and the
\* ranking A (150), B (100).
C10_AsStated ==
    (pc = "returned" /\ IsExampleInput) =>
        /\ overtakes = << Event(Scheme58, Scheme60, Month(2)) >>
        /\ ranking = ExampleRanking

\* C10 amended: the analyzer reports two overtake events, B overtakes A at
\* month 1 (100 > 50 after both were 0) and then A overtakes B at month 2, and
\* the ranking A (150), B (100).
C10_ExampleEvents ==
    (pc = "returned" /\ IsExampleInput) =>
        /\ overtakes = << Event(Scheme60, Scheme58, Month(1)),
                          Event(Scheme58, Scheme60, Month(2)) >>
        /\ ranking = ExampleRanking

C10_Witness ==
    /\ pc = "returned" /\ IsExampleInput
    /\ Len(overtakes) = 2
    /\ ranking[1].scheme = Scheme58

\* the events of `overtakes` that carry the first month of the merged frame
EventsAtFirstMonth ==
    SelectSeq(overtakes, LAMBDA e : e.month = combined_df[1].Date)

\* C11 as stated: neither analyzer ever emits an overtake event for the first
\* month of the merged sequence, whatever the values of that month.
C11_AsStated ==
    combined_df # <<>> => EventsAtFirstMonth = <<>>

\* C11 amended: the three-scheme analyzer (pension_calculator.py) seeds the
\* previous values from the first row and never emits an event for the first
\* merged month; the two-scheme analyzer (calculations.py) seeds them with 0
\* and evaluates the first month too: once the first row is scanned, the
\* events of the first month are exactly 'X overtakes Y' for the scheme X
\* whose first value is positive and greater than the other's.
C11_FirstMonthEvents ==
    (pc \in {"scan", "returned"} /\ combined_df # <<>>) =>
        IF variant = "cmp3"
        THEN EventsAtFirstMonth = <<>>
        ELSE LET first == combined_df[1]
             IN  IF idx = 1 THEN overtakes = <<>>
                 ELSE EventsAtFirstMonth =
                          (IF first.s1 > first.s2 /\ first.s1 > 0
                           THEN <<Event(Scheme58, Scheme60, first.Date)>> ELSE <<>>)
                       \o (IF first.s2 > first.s1 /\ first.s2 > 0
                           THEN <<Event(Scheme60, Scheme58, first.Date)>> ELSE <<>>)

C11_Witness ==
    /\ variant = "cmp" /\ pc = "returned"
    /\ Len(combined_df) = MaxLen
    /\ combined_df[1].s1 > combined_df[1].s2
    /\ combined_df[1].s2 > 0
    /\ EventsAtFirstMonth = <<Event(Scheme58, Scheme60, combined_df[1].Date)>>

\* value of a series of the two-scheme analyzer in the k-th merged month, taken
\* from the analyzer's arguments; 0 before the first merged month
ArgValue(recs, k) ==
    IF k = 0 THEN 0 ELSE TotalAt(recs, combined_df[k].Date)

\* 'X overtakes Y' is due in the k-th merged month
OvertakeDue(x_recs, y_recs, k) ==
    /\ ArgValue(x_recs, k) > ArgValue(y_recs, k)
    /\ ArgValue(x_recs, k - 1) <= ArgValue(y_recs, k - 1)
    /\ ArgValue(x_recs, k) > 0

\* the events due in the merged months 1..n
EventsDue(n) ==
    { Event(Scheme58, Scheme60, combined_df[k].Date) :
          k \in { j \in 1..n : OvertakeDue(s1_records, s2_records, j) } }
    \cup
    { Event(Scheme60, Scheme58, combined_df[k].Date) :
          k \in { j \in 1..n : OvertakeDue(s2_records, s1_records, j) } }

\* C12: in the two-scheme analyzer, for every merged month scanned so far and
\* each ordered pair (X, Y), the event 'X overtakes Y' of that month is in the
\* list if and only if current_X > current_Y, previous_X <= previous_Y and
\* current_X > 0, the previous values being those of the preceding merged
\* month (0 before the first); no event is listed twice and the events are in
\* ascending month order.
C12_OvertakeRule ==
    (variant = "cmp" /\ pc \in {"scan", "returned"}) =>
        /\ { overtakes[k] : k \in 1..Len(overtakes) } = EventsDue(idx - 1)
        /\ Len(overtakes) = Cardinality(EventsDue(idx - 1))
        /\ \A i, j \in 1..Len(overtakes) :
               i < j => MonthIndex(overtakes[i].month) <= MonthIndex(overtakes[j].month)

C12_Witness ==
    /\ variant = "cmp" /\ pc = "returned"
    /\ Len(combined_df) = MaxLen
    /\ overtakes = << Event(Scheme58, Scheme60, combined_df[2].Date),
                      Event(Scheme60, Scheme58, combined_df[3].Date) >>
    /\ combined_df[1].s1 = combined_df[1].s2
    /\ combined_df[1].s1 > 0

\* the schemes of the running analyzer, in input order
InputOrder ==
    IF variant = "cmp3" THEN <<Scheme1, Scheme2, Scheme3>> ELSE <<Scheme58, Scheme60>>

\* position of a scheme in the input order
InputPos(scheme) == CHOOSE k \in 1..Len(InputOrder) : InputOrder[k] = scheme

\* the latest month of the analyzer's arguments
LastMonthOfArgs ==
    LET ds == DatesOf(s1_records) \cup DatesOf(s2_records) \cup DatesOf(s3_records)
    IN  CHOOSE d \in ds : \A e \in ds : MonthIndex(e) <= MonthIndex(d)

\* value of a scheme in that month, taken from the analyzer's arguments
FinalValueOfScheme(scheme) ==
    IF scheme = Scheme58 THEN TotalAt(s1_records, LastMonthOfArgs)
    ELSE IF scheme = Scheme60 THEN TotalAt(s2_records, LastMonthOfArgs)
    ELSE IF scheme = Scheme1 THEN TotalValueAt(s1_records, LastMonthOfArgs)
    ELSE IF scheme = Scheme2 THEN TotalValueAt(s2_records, LastMonthOfArgs)
    ELSE TotalValueAt(s3_records, LastMonthOfArgs)

\* C13: when an analyzer returns a ranking, it lists every scheme exactly
\* once, entry k carries rank k and the scheme's value at the final merged
\* month, the values are in descending order, and of two schemes with equal
\* final values the one earlier in the input order comes first.
C13_Ranking ==
    (pc = "returned" /\ combined_df # <<>>) =>
        /\ Len(ranking) = Len(InputOrder)
        /\ { ranking[k].scheme : k \in 1..Len(ranking) } =
               { InputOrder[k] : k \in 1..Len(InputOrder) }
        /\ \A k \in 1..Len(ranking) :
               /\ ranking[k].rank = k
               /\ ranking[k].value = FinalValueOfScheme(ranking[k].scheme)
        /\ \A i, j \in 1..Len(ranking) :
               i < j =>
                   /\ ranking[i].value >= ranking[j].value
                   /\ ranking[i].value = ranking[j].value =>
                          InputPos(ranking[i].scheme) < InputPos(ranking[j].scheme)

C13_Witness ==
    /\ variant = "cmp" /\ pc = "returned"
    /\ Len(combined_df) = MaxLen
    /\ combined_df[1].s1 < combined_df[1].s2
    /\ ranking = << [rank |-> 1, scheme |-> Scheme58, value |-> 100],
                    [rank |-> 2, scheme |-> Scheme60, value |-> 100] >>

\* an argument of the two-scheme analyzer is an empty list of records
EmptyArgument == s1_records = <<>> \/ s2_records = <<>>

\* C14: called with an empty record sequence for either scheme (or both), the
\* two-scheme analyzer does not fail: it returns an empty overtake list and an
\* empty ranking or the single 'no data' placeholder.
C14_AsStated ==
    (variant = "cmp" /\ EmptyArgument) =>
        /\ pc # "raised"
        /\ pc = "returned" =>
               /\ overtakes = <<>>
               /\ (ranking = <<>> \/ ranking = NoDataRanking)

\* `frame` is the outer join of the two-scheme analyzer's arguments on month:
\* every month of either series exactly once, in ascending order, each row
\* with the series' value of that month, or 0 where the series has no record
IsOuterJoin(frame) ==
    /\ { frame[k].Date : k \in 1..Len(frame) } = DatesOf(s1_records) \cup DatesOf(s2_records)
    /\ Len(frame) = Cardinality(DatesOf(s1_records) \cup DatesOf(s2_records))
    /\ \A k \in 2..Len(frame) : MonthIndex(frame[k - 1].Date) < MonthIndex(frame[k].Date)
    /\ \A k \in 1..Len(frame) :
           /\ IF frame[k].Date \in DatesOf(s1_records)
              THEN \A j \in 1..Len(s1_records) :
                       s1_records[j].Date = frame[k].Date =>
                           frame[k].s1 = s1_records[j].TotalAccumulatedValue
              ELSE frame[k].s1 = 0
           /\ IF frame[k].Date \in DatesOf(s2_records)
              THEN \A j \in 1..Len(s2_records) :
                       s2_records[j].Date = frame[k].Date =>
                           frame[k].s2 = s2_records[j].TotalAccumulatedValue
              ELSE frame[k].s2 = 0

-----------------------------------------------------------------------------
(* Properties of the rate converter *)

\* C16: both implementations of get_monthly_rate return exactly 0 whenever the
\* compounding frequency is 0, whatever the annual rate, and whenever the
\* annual rate is 0, whatever the frequency; no call divides by zero.
C16_ZeroRateGuards ==
    (variant \in {"rate", "rate_pc"} /\ pc # "call") =>
        /\ pc = "returned"
        /\ (p.compounding_frequency_value = 0 \/ p.annual_rate = Frac(0, 1)) =>
               result = [num |-> 0, den |-> 1]

C16_Witness ==
    /\ variant = "rate" /\ pc = "returned"
    /\ p.compounding_frequency_value = 0
    /\ p.annual_rate = Frac(MaxRatePercent, 100)
    /\ result = [num |-> 0, den |-> 1]

\* C17: get_compounding_frequency_value maps Daily to 365, Monthly to 12,
\* Quarterly to 4, Annually to 1 and any other label to 0; get_monthly_rate
\* turns that 0 into a monthly rate of 0, and a simulation whose frequency
\* comes from an unrecognised label earns no interest on that pot (the side
\* fund of variant A, the reinvestment pot of variant B), without an error.
C17_UnrecognisedLabel ==
    /\ get_compounding_frequency_value("Daily") = 365
    /\ get_compounding_frequency_value("Monthly") = 12
    /\ get_compounding_frequency_value("Quarterly") = 4
    /\ get_compounding_frequency_value("Annually") = 1
    /\ \A label \in UnrecognisedLabels :
           /\ get_compounding_frequency_value(label) = 0
           /\ get_monthly_rate(Frac(6, 1), get_compounding_frequency_value(label)) = ZeroRate
           /\ (variant = "s1" /\ p.s1_sip_fund_compounding_frequency =
                                     get_compounding_frequency_value(label)) =>
                  /\ monthly_sip_rate = ZeroRate
                  /\ sip_fund_interest_earned = 0
                  /\ \A i \in 1..Len(records) : records[i].InterestOnSIPFund = 0
           /\ (variant = "s2" /\ p.s2_reinvestment_compounding_frequency =
                                     get_compounding_frequency_value(label)) =>
                  /\ monthly_reinvestment_rate = ZeroRate
                  /\ pension_reinvestment_interest_earned = 0
                  /\ \A i \in 1..Len(records) : records[i].InterestOnReinvestmentNet = 0
                  /\ pc = "done" => result.total_interest_earned = 0

C17_Witness ==
    /\ variant = "s2" /\ pc = "done"
    /\ p.s2_reinvestment_rate = Frac(6, 1)
    /\ p.s2_reinvestment_compounding_frequency = get_compounding_frequency_value("Weekly")
    /\ Len(result.records) >= 3
    /\ result.records[Len(result.records)].PensionReinvestmentPot > p.s2_pension_amount
    /\ result.total_interest_earned = 0

-----------------------------------------------------------------------------
(* Properties of repeated simulator calls *)

\* C18: whatever calls were made before, two calls of the same simulator with
\* identical parameters return identical records and identical summary values:
\* nothing left by an earlier call of either simulator reaches a later call.
C18_Idempotent ==
    \A i, j \in 1..Len(returned) :
        (returned[i].variant = returned[j].variant /\ returned[i].p = returned[j].p) =>
            returned[i].result = returned[j].result

C18_Witness ==
    /\ Len(returned) = MaxCalls
    /\ returned[1].variant = "s1" /\ returned[1].p.enable_tax
    /\ returned[2].variant = "s2"
    /\ returned[MaxCalls].variant = "s1"
    /\ returned[MaxCalls].p = returned[1].p
    /\ returned[MaxCalls].result = returned[1].result
    /\ Len(returned[1].result.records) = MaxMonth + 1
    /\ returned[1].result.total_tax_paid_on_reinvestment_interest > 0

-----------------------------------------------------------------------------
(* Properties of the simulators' summary values *)

RECURSIVE SumSeq(_)
SumSeq(q) == IF q = <<>> THEN 0 ELSE Head(q) + SumSeq(Tail(q))

\* the sum of one field over a list of records
SumOfField(recs, field) == SumSeq([i \in 1..Len(recs) |-> recs[i][field]])

\* C19: the summary a simulator returns agrees with its records: total
\* interest earned is the sum over the records of net reinvestment interest
\* plus side-fund interest, the final value is the last record's total
\* accumulated value (0 without records), and the two tax totals are the sums
\* of the records' tax fields (variant B has no tax fields and returns 0).
C19_SummaryMatchesRecords ==
    (variant \in {"s1", "s2"} /\ pc = "done") =>
        LET recs == result.records
        IN  /\ recs = records
            /\ result.final_value =
                   (IF recs = <<>> THEN 0 ELSE recs[Len(recs)].TotalAccumulatedValue)
            /\ IF variant = "s1"
               THEN /\ result.total_interest_earned =
                           SumOfField(recs, "InterestOnReinvestmentNet")
                           + SumOfField(recs, "InterestOnSIPFund")
                    /\ result.total_tax_paid_on_pension = SumOfField(recs, "TaxOnPension")
                    /\ result.total_tax_paid_on_reinvestment_interest =
                           SumOfField(recs, "TaxOnReinvestmentInterest")
               ELSE /\ result.total_interest_earned =
                           SumOfField(recs, "InterestOnReinvestmentNet")
                    /\ result.total_tax_paid_on_pension = 0
                    /\ result.total_tax_paid_on_reinvestment_interest = 0

C19_Witness ==
    /\ variant = "s1" /\ pc = "done"
    /\ Len(result.records) = MaxMonth + 1
    /\ SumOfField(result.records, "InterestOnSIPFund") > 0
    /\ SumOfField(result.records, "InterestOnReinvestmentNet") > 0
    /\ result.total_tax_paid_on_pension > 0
    /\ result.total_tax_paid_on_reinvestment_interest > 0
    /\ result.final_value > result.records[1].TotalAccumulatedValue
    /\ result.total_interest_earned >
           SumOfField(result.records, "InterestOnReinvestmentNet")

-----------------------------------------------------------------------------
(* Properties of the date parameters *)

\* the arguments of a call with every date parameter on the 1st of its month
MonthsOf(call) == OnDay(call.p, DateFields(call.variant), 1)

\* C20: the simulators' output depends only on the (year, month) of each date
\* parameter: two calls of a simulator whose arguments differ only in days of
\* the month return the same records and summary; in particular the month of
\* the contribution end is a contribution month whatever the day.
C20_DayOfMonthIrrelevant ==
    /\ \A i, j \in 1..Len(returned) :
           (returned[i].variant = returned[j].variant
                /\ MonthsOf(returned[i]) = MonthsOf(returned[j])) =>
               returned[i].result = returned[j].result
    /\ \A i \in 1..Len(returned) :
           LET recs == returned[i].result.records
               args == returned[i].p
               contrib_end == IF returned[i].variant = "s1"
                              THEN args.s1_contribution_to_provider_end_date_val
                              ELSE args.s2_contribution_to_provider_end_date_val
           IN  \A k \in 1..Len(recs) :
                   recs[k].Date = YearMonth(contrib_end) =>
                       recs[k].ContributionsPaidThisMonth >= args.monthly_contribution_val

C20_Witness ==
    /\ Len(returned) = 2
    /\ returned[1].variant = "s1"
    /\ returned[1].p.s1_contribution_to_provider_end_date_val.day = 1
    /\ returned[2].p.s1_contribution_to_provider_end_date_val.day = LateDay
    /\ returned[2].p.lump_sum_date_val.day = 1
    /\ returned[1].result = returned[2].result
    /\ Len(returned[1].result.records) = MaxMonth + 1
    /\ returned[1].result.records[1].ContributionsPaidThisMonth =
           returned[1].p.initial_lump_sum_val + returned[1].p.monthly_contribution_val

-----------------------------------------------------------------------------
(* Properties of the money flows of the simulators *)

PrevCumulative(i) == IF i = 1 THEN 0 ELSE records[i - 1].CumulativeContributionsPaid

\* the lump sum, in the record of the lump-sum month
LumpSumIn(r) ==
    IF MonthIndex(r.Date) = lumpIdx THEN p.initial_lump_sum_val ELSE 0

\* C21: in variant A the monthly contribution of a month goes to the provider
\* (it is added to cumulative contributions paid) exactly when month <=
\* contribution end month, to the side fund exactly when contribution end
\* month < month < transition month, and to neither otherwise, the transition
\* month and all later months included; never to both in one month.
C21_ContributionRouting ==
    variant = "s1" =>
        \A i \in 1..Len(records) :
            LET r == records[i]
                m == MonthIndex(r.Date)
                toProvider == r.CumulativeContributionsPaid - PrevCumulative(i) - LumpSumIn(r)
                toSideFund == r.MonthlySIPContribution
            IN  /\ toProvider = r.ContributionsPaidThisMonth - LumpSumIn(r)
                /\ toProvider =
                       (IF m <= contribEndIdx THEN p.monthly_contribution_val ELSE 0)
                /\ toSideFund =
                       (IF contribEndIdx < m /\ m < transIdx
                        THEN p.monthly_contribution_val ELSE 0)
                /\ m >= transIdx /\ m > contribEndIdx => toProvider = 0 /\ toSideFund = 0
                /\ ~(toProvider > 0 /\ toSideFund > 0)

\* a finished run with a month of each kind: to the provider, to the side
\* fund, and to neither (the transition month)
C21_Witness ==
    /\ variant = "s1" /\ pc = "done" /\ p.monthly_contribution_val > 0
    /\ \E i, j, k \in 1..Len(records) :
           /\ records[i].ContributionsPaidThisMonth - LumpSumIn(records[i]) > 0
           /\ records[j].MonthlySIPContribution > 0
           /\ MonthIndex(records[k].Date) = transIdx
           /\ records[k].MonthlySIPContribution = 0
           /\ records[k].ContributionsPaidThisMonth = 0

\* the records of the transition month
MergerRecords == { i \in 1..Len(records) : MonthIndex(records[i].Date) = transIdx }

\* C22: in variant A, in the month equal to the transition month the whole
\* side fund is added to the reinvestment pot and the side fund becomes zero,
\* so pot + side fund is the same right before and right after the merger
\* step; the merger happens at most once in a run, and in no month at all when
\* the transition month lies outside the simulated months.
C22_Merger ==
    variant = "s1" =>
        /\ \A i \in 1..Len(records) :
               LET r == records[i]
                   \* the pot after the month's pension, before the merger step
                   potBefore == PrevPot(i) + r.PensionReceivedNet
                   \* the side fund after the month's contribution and interest
                   sipBefore == PrevSip(i) + r.MonthlySIPContribution + r.InterestOnSIPFund
                   \* the pot after the merger step, before the month's growth
                   potAfter == r.PensionReinvestmentPot - r.InterestOnReinvestmentNet
                   sipAfter == r.SIPFundBalance
               IN  IF i \in MergerRecords
                   THEN /\ potAfter = potBefore + sipBefore
                        /\ sipAfter = 0
                        /\ potAfter + sipAfter = potBefore + sipBefore
                   ELSE /\ potAfter = potBefore
                        /\ sipAfter = sipBefore
        /\ Cardinality(MergerRecords) <= 1
        /\ (transIdx < lumpIdx \/ transIdx > endIdx) => MergerRecords = {}

\* a finished run whose merger moved a positive side fund, with a month after it
C22_Witness ==
    /\ variant = "s1" /\ pc = "done"
    /\ \E i \in 2..(Len(records) - 1) :
           /\ i \in MergerRecords
           /\ records[i - 1].SIPFundBalance > 0
           /\ records[i].SIPFundBalance = 0
           /\ records[i].PensionReinvestmentPot >=
                  records[i - 1].PensionReinvestmentPot + records[i - 1].SIPFundBalance
           /\ records[i + 1].SIPFundBalance = 0

\* the side fund's active window: strictly between the contribution end month
\* and the transition month
InSideFundWindow(m) == contribEndIdx < m /\ m < transIdx

\* C23: in every record of variant A the side-fund balance is zero outside the
\* side fund's active window, that is in every month <= contribution end month
\* and in every month >= transition month, whether or not the transition month
\* was among the simulated months; it is non-zero only strictly between the two.
C23_SideFundZeroOutsideWindow ==
    variant = "s1" =>
        \A i \in 1..Len(records) :
            LET m == MonthIndex(records[i].Date)
            IN  /\ m <= contribEndIdx => records[i].SIPFundBalance = 0
                /\ m >= transIdx => records[i].SIPFundBalance = 0
                /\ records[i].SIPFundBalance # 0 => InSideFundWindow(m)

\* a finished run whose side fund is zero through the contribution end month,
\* positive inside the window and zero again in a month after the transition month
C23_Witness ==
    /\ variant = "s1" /\ pc = "done"
    /\ \E i, j, k \in 1..Len(records) :
           /\ MonthIndex(records[i].Date) = contribEndIdx
           /\ records[i].SIPFundBalance = 0
           /\ InSideFundWindow(MonthIndex(records[j].Date))
           /\ records[j].SIPFundBalance > 0
           /\ MonthIndex(records[k].Date) > transIdx
           /\ records[k].SIPFundBalance = 0

\* C24 as stated: each record of variant A reports the gross reinvestment
\* interest of its month: with a strictly positive pot the recorded gross
\* interest is pot balance * reinvestment monthly rate, and in every record
\* gross interest = net interest + tax on reinvestment interest.  The code
\* records the local interest_earned_on_reinvestment_gross, which stays 0.0:
\* the first record with a positive pot and a positive rate violates this.
C24_AsStated ==
    variant = "s1" =>
        \A i \in 1..Len(records) :
            LET r == records[i]
                \* the pot balance the interest of the month is computed on
                balance == r.PensionReinvestmentPot - r.InterestOnReinvestmentNet
            IN  /\ balance > 0 =>
                       r.InterestOnReinvestmentGross * monthly_reinvestment_rate.den =
                           balance * monthly_reinvestment_rate.num
                /\ r.InterestOnReinvestmentGross =
                       r.InterestOnReinvestmentNet + r.TaxOnReinvestmentInterest

\* the balance a record's reinvestment interest is computed on: the pot left
\* by the month before, the month's net pension and, in the transition month
\* of variant A, the side fund left by the month before
GrowthBase(i) ==
    PrevPot(i) + records[i].PensionReceivedNet
        + (IF variant = "s1" /\ MonthIndex(records[i].Date) = transIdx
           THEN PrevSip(i) ELSE 0)

\* the gross reinvestment interest of a record: what was added to the pot and
\* what was withheld
GrossInterestOf(r) ==
    r.InterestOnReinvestmentNet
        + (IF variant = "s1" THEN r.TaxOnReinvestmentInterest ELSE 0)

C25_Records ==
    \A i \in 1..Len(records) :
        LET r == records[i]
        IN  /\ GrowthBase(i) > 0 =>
                   GrossInterestOf(r) * monthly_reinvestment_rate.den =
                       GrowthBase(i) * monthly_reinvestment_rate.num
            /\ ~(GrowthBase(i) > 0) =>
                   /\ GrossInterestOf(r) = 0
                   /\ r.PensionReinvestmentPot = GrowthBase(i)
            /\ (variant = "s1" /\ InSideFundWindow(MonthIndex(r.Date))) =>
                   r.InterestOnSIPFund * monthly_sip_rate.den =
                       (PrevSip(i) + r.MonthlySIPContribution) * monthly_sip_rate.num

\* a step that records a month whose pot is not strictly positive leaves the
\* interest and tax totals as they were
C25_GrowthSkipped ==
    (pc = "loop" /\ Len(records') = Len(records) + 1
        /\ ~(pension_reinvestment_pot' > 0)) =>
            /\ pension_reinvestment_interest_earned' = pension_reinvestment_interest_earned
            /\ total_tax_paid_on_reinvestment_interest' =
                   total_tax_paid_on_reinvestment_interest

\* C25: within a month growth is applied after the month's inflows: the net
\* pension of the month and, in the transition month, the merged side fund are
\* in the pot when the month's reinvestment interest is computed, and the
\* month's side-fund contribution is in the side fund when its interest is
\* computed; reinvestment interest is computed only on a strictly positive
\* pot, otherwise the growth step leaves pot, interest and tax totals unchanged.
C25_GrowthAfterInflows == [](C25_Records) /\ [][C25_GrowthSkipped]_vars

\* a finished run of variant A with a month before the pension whose pot and
\* interest are zero, a first side-fund month that earns interest on its own
\* contribution, and a transition month whose interest covers the pension and
\* the merged side fund
C25_Witness ==
    /\ variant = "s1" /\ pc = "done"
    /\ monthly_reinvestment_rate.num > 0
    /\ \E i, j, k \in 1..Len(records) :
           /\ records[i].PensionReinvestmentPot = 0
           /\ records[i].InterestOnReinvestmentNet = 0
           /\ PrevSip(j) = 0
           /\ records[j].MonthlySIPContribution > 0
           /\ records[j].InterestOnSIPFund > 0
           /\ MonthIndex(records[k].Date) = transIdx
           /\ PrevSip(k) > 0
           /\ records[k].PensionReceivedNet > 0
           /\ GrossInterestOf(records[k]) * monthly_reinvestment_rate.den =
                  (PrevPot(k) + records[k].PensionReceivedNet + PrevSip(k))
                      * monthly_reinvestment_rate.num

-----------------------------------------------------------------------------
(* Properties of the two variants run on one plan *)

\* the record fields the two variants have in common
CommonFields ==
    {"Date", "ContributionsPaidThisMonth", "CumulativeContributionsPaid",
     "PensionReceivedNet", "InterestOnReinvestmentNet", "PensionReinvestmentPot",
     "TotalAccumulatedValue"}

\* no month lies strictly between the contribution end month and the
\* transition month of the variant A arguments `a`
WindowEmpty(a) ==
    MonthIndex(a.s2_pension_start_date)
        <= MonthIndex(a.s1_contribution_to_provider_end_date_val) + 1

\* C26: with tax disabled and an empty side-fund window, calculate_scheme1_logic
\* and calculate_scheme2_logic called with the same lump sum, contribution,
\* contribution end, pension amount, pension start, reinvestment rate and
\* frequency and horizon return, month by month, the same contributions paid,
\* cumulative contributions, net pension, net reinvestment interest, pot
\* balance and total accumulated value, and the same summary values.
C26_VariantAContainsB ==
    \A i, j \in 1..Len(returned) :
        (/\ returned[i].variant = "s1" /\ returned[j].variant = "s2"
         /\ returned[j].p = Scheme2ArgsOf(returned[i].p)
         /\ ~returned[i].p.enable_tax
         /\ WindowEmpty(returned[i].p)) =>
            LET a == returned[i].result
                b == returned[j].result
            IN  /\ Len(a.records) = Len(b.records)
                /\ \A k \in 1..Len(a.records) : \A f \in CommonFields :
                       a.records[k][f] = b.records[k][f]
                /\ a.total_interest_earned = b.total_interest_earned
                /\ a.final_value = b.final_value
                /\ a.total_tax_paid_on_pension = b.total_tax_paid_on_pension
                /\ a.total_tax_paid_on_reinvestment_interest =
                       b.total_tax_paid_on_reinvestment_interest

\* both variants returned for a plan without tax whose side-fund window is
\* empty although the transition month is simulated, with pension, interest
\* and the full horizon
C26_Witness ==
    /\ Len(returned) = 2
    /\ returned[1].variant = "s1" /\ returned[2].variant = "s2"
    /\ returned[2].p = Scheme2ArgsOf(returned[1].p)
    /\ ~returned[1].p.enable_tax
    /\ WindowEmpty(returned[1].p)
    /\ MonthIndex(returned[1].p.s2_pension_start_date)
           > MonthIndex(returned[1].p.lump_sum_date_val)
    /\ Len(returned[1].result.records) = MaxMonth + 1
    /\ returned[1].result.total_interest_earned > 0
    /\ returned[2].result.final_value = returned[1].result.final_value
    /\ returned[2].result.final_value > 0

-----------------------------------------------------------------------------
(* Properties of the three-scheme analyzer *)

\* value of a scheme in a row of the three-scheme analyzer's merged frame
Value3(row, scheme) ==
    IF scheme = Scheme1 THEN row.s1 ELSE IF scheme = Scheme2 THEN row.s2 ELSE row.s3

\* the stated rule for 'X overtakes Y' in the k-th merged month, k > 1
StatedOvertake3(x, y, k) ==
    /\ Value3(combined_df[k], x) > Value3(combined_df[k], y)
    /\ Value3(combined_df[k - 1], x) <= Value3(combined_df[k - 1], y)
    /\ Value3(combined_df[k], x) > 0

\* C27 as stated: in the three-scheme analyzer each of the 6 ordered pairs of
\* distinct schemes is tested in every merged month after the first, and 'X
\* overtakes Y' is listed for a month whenever current_X > current_Y,
\* previous_X <= previous_Y and current_X > 0, with no positivity guard on
\* the overtaken scheme.  The code also asks for current_Y > 0: a scheme that
\* rises above one whose value is 0 is not reported.
C27_AsStated ==
    (variant = "cmp3" /\ pc \in {"scan", "returned"}) =>
        \A k \in 2..(idx - 1) :
            \A x, y \in {Scheme1, Scheme2, Scheme3} :
                (x # y /\ StatedOvertake3(x, y, k)) =>
                    \E e \in 1..Len(overtakes) :
                        overtakes[e] = Event(x, y, combined_df[k].Date)

-----------------------------------------------------------------------------
(* Termination of the simulators *)

\* every iteration moves the current month forward by exactly one month and
\* appends one record
C28_OneMonthPerIteration ==
    (pc = "loop" /\ pc' = "loop") =>
        /\ MonthIndex(current_date') = MonthIndex(current_date) + 1
        /\ Len(records') = Len(records) + 1

\* the loop runs only while the current month is at or before the horizon
\* month, and ends in the first month past it
C28_EndsPastHorizon ==
    /\ pc = "loop" => MonthIndex(current_date) <= Max(lumpIdx, endIdx + 1)
    /\ pc = "done" =>
           /\ MonthIndex(current_date) = Max(lumpIdx, endIdx + 1)
           /\ Len(records) = Max(0, endIdx - lumpIdx + 1)

\* C28: both simulator loops terminate for every pair of lump-sum month and
\* horizon month: the current month grows by exactly one month per iteration,
\* the loop ends as soon as the current month is past the horizon month, after
\* exactly max(0, horizon - start + 1) iterations.
C28_Termination ==
    /\ <>(pc = "done")
    /\ [](C28_EndsPastHorizon)
    /\ [][C28_OneMonthPerIteration]_vars

\* a finished run over the whole window, and so across the turn of the year
C28_Witness ==
    /\ pc = "done"
    /\ endIdx = lumpIdx + MaxMonth
    /\ Len(records) = MaxMonth + 1
    /\ records[1].Date.year < records[Len(records)].Date.year

-----------------------------------------------------------------------------
(* Conservation of value *)

\* what entered the user's pots in the first n months of a variant A run
InflowsThrough(n) ==
    LET recs == SubSeq(records, 1, n)
    IN  SumOfField(recs, "PensionReceivedNet")
        + SumOfField(recs, "MonthlySIPContribution")
        + SumOfField(recs, "InterestOnSIPFund")
        + SumOfField(recs, "InterestOnReinvestmentNet")

\* C29: in every record of variant A the total accumulated value is the sum,
\* over the months so far, of net pension received + side-fund contribution
\* + side-fund interest + net reinvestment interest: the lump sum and the
\* contributions paid to the provider never enter it and tax withheld never
\* comes back into it.  In variant B the total accumulated value is 0 in every
\* record before the pension start month.
C29_Conservation ==
    \A i \in 1..Len(records) :
        IF variant = "s1"
        THEN records[i].TotalAccumulatedValue = InflowsThrough(i)
        ELSE MonthIndex(records[i].Date) < pensionStartIdx =>
                 records[i].TotalAccumulatedValue = 0

\* a finished run of variant A that paid the lump sum and contributions to the
\* provider, had pension and interest taxed, fed and merged the side fund
C29_Witness ==
    /\ variant = "s1" /\ pc = "done"
    /\ Len(records) = MaxMonth + 1
    /\ records[1].ContributionsPaidThisMonth > p.monthly_contribution_val
    /\ total_tax_paid_on_pension > 0
    /\ total_tax_paid_on_reinvestment_interest > 0
    /\ sip_fund_interest_earned > 0
    /\ \E i \in MergerRecords : i < Len(records)
    /\ records[Len(records)].TotalAccumulatedValue = InflowsThrough(Len(records))
    /\ records[Len(records)].TotalAccumulatedValue > 0

-----------------------------------------------------------------------------
(* app.py, ui_components.py: the calculator page and its date navigation *)
(* A datetime is modelled by its date; the time of day plays no part.    *)

\* Most days that pass while the page is in use.
MaxDaysPassed == 1

IsLeapYear(y) == (y % 4 = 0 /\ y % 100 # 0) \/ y % 400 = 0

DaysInMonth(y, m) ==
    IF m = 2 THEN (IF IsLeapYear(y) THEN 29 ELSE 28)
    ELSE IF m \in {4, 6, 9, 11} THEN 30 ELSE 31

\* d + relativedelta(years=years, months=months): the month is moved, then
\* the day is cut to the length of the month reached
RelativeDelta(d, years, months) ==
    LET total == d.year * 12 + (d.month - 1) + 12 * years + months
        y == total \div 12
        m == (total % 12) + 1
    IN  MkDate(y, m, IF d.day > DaysInMonth(y, m) THEN DaysInMonth(y, m) ELSE d.day)

\* the clock a day later
NextDay(d) ==
    IF d.day < DaysInMonth(d.year, d.month) THEN MkDate(d.year, d.month, d.day + 1)
    ELSE IF d.month < 12 THEN MkDate(d.year, d.month + 1, 1)
    ELSE MkDate(d.year + 1, 1, 1)

\* min(a, b) and max(a, b, c) of Python on dates
DateMin(a, b) == IF DateLE(a, b) THEN a ELSE b
DateMax(a, b) == IF DateLT(a, b) THEN b ELSE a

\* st.date_input without min_value and max_value offers the dates from ten
\* years before to ten years after its initial value
DateInputSpanYears == 10

\* the initial values of the three date inputs the page's range depends on
DefaultInputs ==
    [lump_sum_date         |-> MkDate(2025, 3, 1),
     s1_pension_start_date |-> MkDate(2026, 6, 1),
     s2_pension_start_date |-> MkDate(2028, 6, 1)]

\* the inputs with those of the set `late` at their latest date, those of the
\* set `early` at their earliest date (both on other days of the month) and the
\* others at their initial value
InputsWith(late, early) ==
    [f \in DOMAIN DefaultInputs |->
        IF f \in late
        THEN MkDate(DefaultInputs[f].year + DateInputSpanYears,
                    DefaultInputs[f].month - 1, 28)
        ELSE IF f \in early
             THEN MkDate(DefaultInputs[f].year - DateInputSpanYears,
                         DefaultInputs[f].month, 15)
             ELSE DefaultInputs[f]]

\* what the user sets them to: the initial values, all at their earliest, all
\* at their latest, and the lump-sum date or variant A's pension start at its
\* latest with the other two at their earliest
SidebarInputs ==
    { InputsWith({}, {}),
      InputsWith({}, DOMAIN DefaultInputs),
      InputsWith(DOMAIN DefaultInputs, {}),
      InputsWith({"lump_sum_date"}, {"s1_pension_start_date", "s2_pension_start_date"}),
      InputsWith({"s1_pension_start_date"}, {"lump_sum_date", "s2_pension_start_date"}) }

\* the day the page is opened on: the eve of a leap day
Todays == { MkDate(2028, 2, 28) }

Buttons == {"-1 Year", "-3 Months", "+3 Months", "+1 Year"}

\* no simulator call made yet
NotInvoked == [end_date |-> MkDate(0, 1, 1)]

\* min_display_date = max(first of the lump-sum month, of variant A's pension
\*    start month, of variant B's pension start month) + relativedelta(months=1)
MinDisplayDate(inputs) ==
    RelativeDelta(DateMax(DateMax(FirstOfMonth(inputs.lump_sum_date),
                                  FirstOfMonth(inputs.s1_pension_start_date)),
                          FirstOfMonth(inputs.s2_pension_start_date)),
                  0, 1)

\* max_possible_date = datetime.now() + relativedelta(years=30)
MaxPossibleDate(now) == RelativeDelta(now, 30, 0)

\* Mutant: the stored date is used as it is.
EnsureDisplayDate_Unchecked(current, min_display_date) == current

\* if st.session_state.current_display_end_date < min_display_date:
\*     st.session_state.current_display_end_date = min_display_date + relativedelta(years=2)
EnsureDisplayDate(current, min_display_date) ==
    IF DateLT(current, min_display_date) THEN RelativeDelta(min_display_date, 2, 0)
                                         ELSE current

\* ui_components.create_date_navigation; `clicked` is the button pressed for
\* this run of the page, "none" when no button was pressed
create_date_navigation(current, min_date, max_possible_date, clicked) ==
    IF clicked = "-1 Year" THEN RelativeDelta(current, 0 - 1, 0)
    ELSE IF clicked = "-3 Months" THEN RelativeDelta(current, 0, 0 - 3)
    ELSE IF clicked = "+3 Months"
         THEN DateMin(RelativeDelta(current, 0, 3), max_possible_date)
    ELSE IF clicked = "+1 Year"
         THEN DateMin(RelativeDelta(current, 1, 0), max_possible_date)
    ELSE current

\* the session state when the calculator page is first run:
\* current_display_end_date = datetime(today.year + 5, today.month, 1)
InitNavigation ==
    /\ pc = "run" /\ variant = "app"
    /\ \E today \in Todays, inputs \in SidebarInputs :
           session = [page |-> "calculator",
                      current_display_end_date |-> MkDate(today.year + 5, today.month, 1),
                      today |-> today,
                      days_passed |-> 0,
                      inputs |-> inputs,
                      clicked |-> "none",
                      button |-> "none",
                      invoked |-> NotInvoked]
    /\ p = <<>>
    /\ monthly_sip_rate = ZeroRate
    /\ monthly_reinvestment_rate = ZeroRate
    /\ current_date = Base
    /\ cumulative_contributions_paid_to_provider = 0
    /\ pension_reinvestment_pot = 0
    /\ pension_reinvestment_interest_earned = 0
    /\ sip_fund_balance = 0
    /\ sip_fund_interest_earned = 0
    /\ total_tax_paid_on_pension = 0
    /\ total_tax_paid_on_reinvestment_interest = 0
    /\ records = <<>>
    /\ result = [records |-> <<>>]
    /\ CmpIdle
    /\ returned = <<>>

\* One run of calculator_page up to the simulator calls.  When the navigation
\* returns another date it is stored and st.rerun() starts the page again,
\* with no button pressed; otherwise both simulators are called with the
\* stored date as end_date (`invoked` keeps what they were called with, and
\* the button whose click led to the call).
CalculatorPage ==
    /\ pc = "run" /\ variant = "app"
    /\ LET min_display_date == MinDisplayDate(session.inputs)
           max_possible_date == MaxPossibleDate(session.today)
           current == EnsureDisplayDate(session.current_display_end_date, min_display_date)
           new_date == create_date_navigation(current, min_display_date,
                                              max_possible_date, session.clicked)
       IN  IF new_date # current
           THEN /\ session' = [session EXCEPT !.current_display_end_date = new_date,
                                              !.clicked = "none"]
                /\ pc' = "run"
           ELSE /\ session' = [session EXCEPT
                                  !.current_display_end_date = current,
                                  !.clicked = "none",
                                  !.invoked = [end_date |-> current,
                                               after |-> session.button,
                                               before |-> session.current_display_end_date,
                                               lump_sum_date_val |-> session.inputs.lump_sum_date,
                                               min_display_date |-> min_display_date,
                                               max_possible_date |-> max_possible_date]]
                /\ pc' = "shown"
    /\ UNCHANGED <<variant, simVars, cmpVars, returned>>

\* the user presses one of the four navigation buttons of the page shown
ClickButton ==
    /\ pc = "shown" /\ variant = "app"
    /\ \E b \in Buttons :
           session' = [session EXCEPT !.clicked = b, !.button = b,
                                      !.invoked = NotInvoked]
    /\ pc' = "run"
    /\ UNCHANGED <<variant, simVars, cmpVars, returned>>

\* the user sets the date inputs of the sidebar to other values
ChangeInputs ==
    /\ pc = "shown" /\ variant = "app"
    /\ \E inputs \in SidebarInputs \ {session.inputs} :
           session' = [session EXCEPT !.inputs = inputs, !.button = "none",
                                      !.invoked = NotInvoked]
    /\ pc' = "run"
    /\ UNCHANGED <<variant, simVars, cmpVars, returned>>

\* midnight passes: date.today() and datetime.now() move on by a day
DayPasses ==
    /\ variant = "app"
    /\ session.days_passed < MaxDaysPassed
    /\ session' = [session EXCEPT !.today = NextDay(session.today),
                                  !.days_passed = session.days_passed + 1]
    /\ UNCHANGED <<pc, variant, simVars, cmpVars, returned>>

NextNavigation ==
    \/ CalculatorPage
    \/ ClickButton
    \/ ChangeInputs
    \/ DayPasses

SpecNavigation == InitNavigation /\ [][NextNavigation]_vars

\* the number of records a simulator returns for a lump-sum date and an end
\* date: one for every month from the lump-sum month through the end month
RecordsFor(lump_sum_date_val, end_date) ==
    Max(0, MonthIndex(end_date) - MonthIndex(lump_sum_date_val) + 1)

\* C30: after any sequence of clicks on -1 Year, -3 Months, +3 Months and +1
\* Year and the reruns they start, the end date the simulators are called with
\* lies in [min_display_date, max_possible_date]; it is never before
\* min_display_date, so both simulators return at least one record to the
\* analyzer.
C30_HorizonInRange ==
    (variant = "app" /\ session.invoked # NotInvoked) =>
        /\ DateLE(session.invoked.min_display_date, session.invoked.end_date)
        /\ DateLE(session.invoked.end_date, session.invoked.max_possible_date)
        /\ RecordsFor(session.invoked.lump_sum_date_val, session.invoked.end_date) > 0

\* the page shown after a click on -1 Year took the stored date below
\* min_display_date: the simulators were called with min_display_date + 2 years
C30_Witness ==
    /\ variant = "app" /\ pc = "shown"
    /\ session.invoked # NotInvoked
    /\ session.invoked.after = "-1 Year"
    /\ DateLT(session.invoked.before, session.invoked.min_display_date)
    /\ session.invoked.end_date = RelativeDelta(session.invoked.min_display_date, 2, 0)

====
